---------------------------- MODULE Spec2Model ----------------------------
(***************************************************************************)
(* Model of the Lego Star Wars TCS client's state-reconciliation engine:   *)
(*   - UnlockedChapterManager  (client/game_state_modifiers/levels.py)     *)
(*   - FreePlayChapterCompletionChecker                                    *)
(*                             (client/location_checkers/                  *)
(*                              free_play_completion.py)                   *)
(*   - BasePurchasesChecker    (client/location_checkers/shop_purchases.py)*)
(*   - TrueJediAndMinikitChecker                                           *)
(*                             (client/location_checkers/                  *)
(*                              true_jedi_and_minikits.py)                 *)
(*   - InGameTextDisplay       (client/game_state_modifiers/text_display.py)*)
(*                                                                         *)
(* The game's memory is modelled by the variables the engine reads and     *)
(* writes; the session's Fact Store by checked_locations.  The data tables *)
(* (chapters, requirements, shop slots) are a representative part of the   *)
(* real tables, small enough to enumerate.                                 *)
(***************************************************************************)
EXTENDS Integers, Sequences, FiniteSets, TLC

VARIABLES
    \* ---- UnlockedChapterManager
    character_to_dependent_game_chapters,   \* item id -> list of short names
    remaining_chapter_item_requirements,    \* short name -> set of item ids
    unlocked_chapters_per_episode,          \* episode -> set of short names
    \* ---- AcquiredGeneric (the part the chapter mirror reads)
    unlocked_episodes,
    \* ---- history of deliveries and the exception raised, if any
    delivered,                              \* item ids delivered so far
    last_delivery,                          \* [item, duplicate] of the last call
    error,                                  \* "none" or the exception's name
    \* ---- game memory read by the chapter mirror
    cantina_room,
    all_episodes_character_selected,
    \* ---- game memory: the save record of every chapter (offset -> byte)
    save_data,
    \* ---- FreePlayChapterCompletionChecker
    sent_locations,
    completed_free_play,
    initial_setup_complete,
    \* ---- game memory read by the free-play checker
    current_level_id,
    current_game_mode,
    status_level_type,
    \* ---- history of (re)connections
    connection,                             \* number of the checker instance
    previous_completed_free_play,           \* what the previous instance held
    \* ---- Fact Store (session)
    checked_locations,
    \* ---- output of the detectors' polls
    new_location_checks,                    \* list filled by the last poll
    previous_location_checks,               \* list filled by the poll before
    polls_on_same_state,                    \* polls since memory/facts changed
    poll_calls,                             \* memory calls of the last poll
    detector,                               \* the detector a behaviour polls
    \* ---- BasePurchasesChecker
    remaining_purchases,                    \* offset -> (bit mask -> id)
    shop_bytes,                             \* game memory at shop_address
    shop_reads,                             \* reads issued by the last poll
    \* ---- TrueJediAndMinikitChecker
    remaining_true_jedi_check_shortnames,
    remaining_minikit_checks_by_shortname,  \* short name -> list of <<count, id>>
    current_area_id,
    current_area_minikit_count,
    p1_studs,
    p2_studs,
    true_jedi_meter_studs,
    \* ---- InGameTextDisplay
    initialized,
    messages_enabled,
    message_queue,
    memory_dirty,
    next_allowed_message_time,
    next_allowed_clean_time,
    vanilla_bytes,
    double_score_zone_string_address,
    \* ---- game memory and clock used by the text display
    scratch_memory,                         \* bytes written to the allocation
    double_score_zone_pointer,              \* entry of the string pointer table
    double_score_zone_timer,
    game_flags,                             \* the five bytes the tick reads
    clock,                                  \* perf_counter_ns, in seconds
    hooked,                                 \* FALSE after on_unhook_game_process
    game_image,                             \* what the pattern scans find
    last_tick,                              \* what the last display tick did
    initialize_calls,                       \* calls of _initialize so far
    head_ticks,                             \* ticks that found the head message
                                            \* ready and the game unsafe
    \* ---- give_studs and the rest of AcquiredGeneric
    stud_count,                             \* uint at STUD_COUNT_ADDRESS
    progressive_score_count,
    unlocked_extras,                        \* indices into SCORE_MULIPLIER_EXTRAS
    last_receipt,                           \* handler and id of the last item
    \* ---- AcquiredGeneric (the part its mirror reads) and the characters
    acquired_minikit_count,                 \* AcquiredGeneric.minikit_count
    progressive_bonus_count,
    unlocked_characters,                    \* character indices acquired
    \* ---- game memory written by AcquiredGeneric.update_game_state
    bonuses_byte,                           \* byte at BONUSES_BASE_ADDRESS
    custom_character2_name,                 \* bytes at CUSTOM_CHARACTER2_NAME_OFFSET
    mirror_writes,                          \* writes issued by the last tick
    ticks_on_same_facts                     \* ticks since the facts changed

chapterVars == <<character_to_dependent_game_chapters,
                 remaining_chapter_item_requirements,
                 unlocked_chapters_per_episode, unlocked_episodes,
                 delivered, last_delivery, error>>
mirrorVars == <<cantina_room, all_episodes_character_selected>>
freePlayVars == <<sent_locations, completed_free_play, initial_setup_complete>>
freePlayMemory == <<current_level_id, current_game_mode, status_level_type>>
connectionVars == <<connection, previous_completed_free_play>>
pollVars == <<new_location_checks, previous_location_checks,
              polls_on_same_state, poll_calls>>
shopVars == <<remaining_purchases, shop_bytes, shop_reads>>
minikitVars == <<remaining_true_jedi_check_shortnames,
                 remaining_minikit_checks_by_shortname>>
minikitMemory == <<current_area_id, current_area_minikit_count, p1_studs,
                   p2_studs, true_jedi_meter_studs>>
displayVars == <<initialized, messages_enabled, message_queue, memory_dirty,
                 next_allowed_message_time, next_allowed_clean_time,
                 vanilla_bytes, double_score_zone_string_address>>
displayMemory == <<scratch_memory, double_score_zone_pointer,
                   double_score_zone_timer, game_flags, clock, hooked,
                   game_image, last_tick, head_ticks, initialize_calls>>

genericVars == <<acquired_minikit_count, progressive_bonus_count, unlocked_characters,
                 bonuses_byte, custom_character2_name, mirror_writes,
                 ticks_on_same_facts>>

studVars == <<stud_count, progressive_score_count, unlocked_extras>>
receiptVars == <<studVars, last_receipt>>

vars == <<genericVars, receiptVars, chapterVars, mirrorVars, save_data, freePlayVars, freePlayMemory,
          connectionVars, checked_locations, pollVars, detector, shopVars,
          minikitVars, minikitMemory, displayVars, displayMemory>>

-----------------------------------------------------------------------------
(***************************************************************************)
(* Generic helpers.                                                        *)
(***************************************************************************)

Min(S) == CHOOSE x \in S : \A y \in S : x <= y
Max(S) == CHOOSE x \in S : \A y \in S : x >= y

\* The elements of a sequence.
Range(s) == {s[i] : i \in DOMAIN s}

\* A set of integers as the list of its elements in increasing order.
RECURSIVE SetToSeq(_)
SetToSeq(S) == IF S = {} THEN <<>>
               ELSE LET m == Min(S) IN <<m>> \o SetToSeq(S \ {m})

\* Python's a & b on non-negative integers.
RECURSIVE BitAnd(_, _)
BitAnd(a, b) == IF a = 0 \/ b = 0 THEN 0
                ELSE (a % 2) * (b % 2) + 2 * BitAnd(a \div 2, b \div 2)

\* A dict without the key k.
DelKey(f, k) == [x \in DOMAIN f \ {k} |-> f[x]]

\* A dict with f[k] = v, k added when missing.
SetKey(f, k, v) == [x \in DOMAIN f \cup {k} |-> IF x = k THEN v ELSE f[x]]

EmptyDict == [x \in {} |-> {}]

\* Mutation: the write clears the rest of the record.
WriteRecordBytesClearing(record, offset, bytes) ==
    [o \in DOMAIN record |->
        IF o >= offset /\ o < offset + Len(bytes)
        THEN bytes[o - offset + 1] ELSE 0]

\* ctx.write_bytes(address + offset, bytes, len(bytes)) on one save record.
WriteRecordBytes(record, offset, bytes) ==
    [o \in DOMAIN record |->
        IF o >= offset /\ o < offset + Len(bytes)
        THEN bytes[o - offset + 1] ELSE record[o]]

-----------------------------------------------------------------------------
(***************************************************************************)
(* Static data: levels.py.  Three of the 36 chapters are modelled: one     *)
(* with no requirement (1-1) and two of Episode 2 that share the           *)
(* "Episode 2 Unlock" requirement (2-1, 2-5).                              *)
(***************************************************************************)

CHAPTER_AREAS == <<"1-1", "2-1", "2-5">>

ALL_CHAPTER_AREAS_SET == Range(CHAPTER_AREAS)

\* ChapterArea.episode
Episode(area) == CASE area = "1-1" -> 1
                   [] area = "2-1" -> 2
                   [] area = "2-5" -> 2

\* ChapterArea.status_level_id
StatusLevelId(area) == CASE area = "1-1" -> 7
                         [] area = "2-1" -> 68
                         [] area = "2-5" -> 95

\* ChapterArea.area_id
AreaId(area) == CASE area = "1-1" -> 0
                  [] area = "2-1" -> 10
                  [] area = "2-5" -> 14

CHAPTER_AREA_CHARACTER_REQUIREMENTS(area) ==
    CASE area = "1-1" -> {}
      [] area = "2-1" -> {"Anakin's Speeder"}
      [] area = "2-5" -> {"Republic Gunship"}

\* Offsets into a chapter's save record.
UNLOCKED_OFFSET == 0
STORY_COMPLETE_OFFSET == 1
TRUE_JEDI_COMPLETE_OFFSET == 2
TRUE_JEDI_COMPLETE_2_OFFSET == 3
MINIKIT_GOLD_BRICK_OFFSET == 4
MINIKIT_COUNT_OFFSET == 5
POWER_BRICK_COLLECTED_OFFSET == 6
CHALLENGE_COMPLETE_OFFSET == 7

RecordOffsets == UNLOCKED_OFFSET .. CHALLENGE_COMPLETE_OFFSET

\* f"Episode {episode} Unlock"
EpisodeUnlockName(episode) ==
    CASE episode = 2 -> "Episode 2 Unlock"
      [] episode = 3 -> "Episode 3 Unlock"
      [] episode = 4 -> "Episode 4 Unlock"
      [] episode = 5 -> "Episode 5 Unlock"
      [] episode = 6 -> "Episode 6 Unlock"

\* ITEM_DATA_BY_NAME[name].code
ItemCode(name) ==
    CASE name = "Anakin's Speeder" -> 1
      [] name = "Republic Gunship" -> 2
      [] name = "Episode 2 Unlock" -> 12
      [] name = "Episode 3 Unlock" -> 13
      [] name = "Episode 4 Unlock" -> 14
      [] name = "Episode 5 Unlock" -> 15
      [] name = "Episode 6 Unlock" -> 16
      [] name = "5 Minikits" -> 20
      [] name = "Progressive Bonus Level" -> 21
      [] name = "Progressive Score Multiplier" -> 22
      [] name = "Purple Stud" -> 23
      [] name = "Restart Level Trap" -> 24

\* EPISODE_UNLOCKS: item id -> episode
EPISODE_UNLOCKS == [code \in {ItemCode(EpisodeUnlockName(i)) : i \in 2..6} |->
                       CHOOSE i \in 2..6 : ItemCode(EpisodeUnlockName(i)) = code]

CharacterItemIds == {ItemCode("Anakin's Speeder"), ItemCode("Republic Gunship")}

-----------------------------------------------------------------------------
(***************************************************************************)
(* UnlockedChapterManager.                                                 *)
(***************************************************************************)

\* __init__: the item names a chapter requires (lines 29-33).
ItemRequirements(area) ==
    IF Episode(area) # 1
    THEN {EpisodeUnlockName(Episode(area))}
             \cup CHAPTER_AREA_CHARACTER_REQUIREMENTS(area)
    ELSE CHAPTER_AREA_CHARACTER_REQUIREMENTS(area)

\* Mutation of __init__: a chapter without requirements is entered into the
\* remaining requirements like any other, and not unlocked.
ManagerInitStepRequiring(m, area) ==
    LET codes == {ItemCode(n) : n \in ItemRequirements(area)} IN
    [m EXCEPT
        !.dependents =
            [c \in DOMAIN m.dependents \cup codes |->
                IF c \in codes
                THEN (IF c \in DOMAIN m.dependents
                      THEN Append(m.dependents[c], area)
                      ELSE <<area>>)
                ELSE m.dependents[c]],
        !.remaining = SetKey(m.remaining, area, codes)]

\* __init__: one iteration of `for chapter_area in CHAPTER_AREAS`.
ManagerInitStep(m, area) ==
    LET codes == {ItemCode(n) : n \in ItemRequirements(area)} IN
    IF codes # {}
    THEN [m EXCEPT
            !.dependents =
                [c \in DOMAIN m.dependents \cup codes |->
                    IF c \in codes
                    THEN (IF c \in DOMAIN m.dependents
                          THEN Append(m.dependents[c], area)
                          ELSE <<area>>)
                    ELSE m.dependents[c]],
            !.remaining = SetKey(m.remaining, area, codes)]
    ELSE [m EXCEPT !.unlocked[Episode(area)] = @ \cup {area}]

RECURSIVE ManagerInitLoop(_, _)
ManagerInitLoop(m, i) ==
    IF i > Len(CHAPTER_AREAS) THEN m
    ELSE ManagerInitLoop(ManagerInitStep(m, CHAPTER_AREAS[i]), i + 1)

\* UnlockedChapterManager.__init__
ManagerInit ==
    ManagerInitLoop([dependents |-> EmptyDict,
                     remaining |-> EmptyDict,
                     unlocked |-> [i \in 1..6 |-> {}]], 1)

\* Mutation of unlock_chapter: the episode's set is assigned, not added to.
UnlockChapterAssigning(unlocked, area) ==
    [unlocked EXCEPT ![Episode(area)] = {area}]

\* unlock_chapter
UnlockChapter(unlocked, area) ==
    [unlocked EXCEPT ![Episode(area)] = @ \cup {area}]

\* Mutation of the loop body: the chapter is unlocked as soon as one of its
\* requirements is removed.
DependentStepEager(m, area, character_ap_id) ==
    IF area \notin DOMAIN m.remaining
    THEN [m EXCEPT !.err = "KeyError"]
    ELSE LET remaining_requirements == m.remaining[area] IN
         IF remaining_requirements = {}
            \/ character_ap_id \notin remaining_requirements
         THEN [m EXCEPT !.err = "AssertionError"]
         ELSE [m EXCEPT !.unlocked = UnlockChapter(m.unlocked, area),
                        !.remaining[area] =
                            remaining_requirements \ {character_ap_id}]

\* Mutation of lines 63-65: the chapter is unlocked and leaves the remaining
\* requirements when the first of its requirements is removed.
DependentStepDeleting(m, area, character_ap_id) ==
    IF area \notin DOMAIN m.remaining
    THEN [m EXCEPT !.err = "KeyError"]
    ELSE LET remaining_requirements == m.remaining[area] IN
         IF remaining_requirements = {}
            \/ character_ap_id \notin remaining_requirements
         THEN [m EXCEPT !.err = "AssertionError"]
         ELSE [m EXCEPT !.unlocked = UnlockChapter(m.unlocked, area),
                        !.remaining = DelKey(m.remaining, area)]

\* on_character_or_episode_unlocked: one iteration of the loop over the
\* dependent chapters (lines 57-65).  m.err names the exception raised.
DependentStep(m, area, character_ap_id) ==
    IF area \notin DOMAIN m.remaining
    THEN [m EXCEPT !.err = "KeyError"]
    ELSE LET remaining_requirements == m.remaining[area] IN
         IF remaining_requirements = {}
            \/ character_ap_id \notin remaining_requirements
         THEN [m EXCEPT !.err = "AssertionError"]
         ELSE LET left == remaining_requirements \ {character_ap_id} IN
              IF left = {}
              THEN [m EXCEPT !.unlocked = UnlockChapter(m.unlocked, area),
                             !.remaining = DelKey(m.remaining, area)]
              ELSE [m EXCEPT !.remaining[area] = left]

RECURSIVE DependentLoop(_, _, _, _)
DependentLoop(m, dependent_chapters, i, character_ap_id) ==
    IF i > Len(dependent_chapters) \/ m.err # "none" THEN m
    ELSE DependentLoop(DependentStep(m, dependent_chapters[i], character_ap_id),
                       dependent_chapters, i + 1, character_ap_id)

\* Mutation of line 67: the entry of the reverse index is kept.
ForgetCharacterKept(dependents, character_ap_id) == dependents

\* on_character_or_episode_unlocked, line 67
ForgetCharacter(dependents, character_ap_id) ==
    DelKey(dependents, character_ap_id)

\* on_character_or_episode_unlocked as a function of the manager's state.
OnCharacterOrEpisodeUnlocked(m, character_ap_id) ==
    IF character_ap_id \notin DOMAIN m.dependents
    THEN m
    ELSE LET after == DependentLoop(m, m.dependents[character_ap_id], 1,
                                    character_ap_id) IN
         IF after.err # "none" THEN after
         ELSE [after EXCEPT
                  !.dependents = ForgetCharacter(after.dependents,
                                                 character_ap_id)]

ManagerState == [dependents |-> character_to_dependent_game_chapters,
                 remaining |-> remaining_chapter_item_requirements,
                 unlocked |-> unlocked_chapters_per_episode,
                 err |-> error]

\* The call itself, with the history of deliveries.
on_character_or_episode_unlocked(character_ap_id) ==
    LET m == OnCharacterOrEpisodeUnlocked(ManagerState, character_ap_id) IN
    /\ character_to_dependent_game_chapters' = m.dependents
    /\ remaining_chapter_item_requirements' = m.remaining
    /\ unlocked_chapters_per_episode' = m.unlocked
    /\ error' = m.err
    /\ delivered' = delivered \cup {character_ap_id}
    /\ last_delivery' = [item |-> character_ap_id,
                         duplicate |-> character_ap_id \in delivered]

\* A character or vehicle is received.
ReceiveCharacter ==
    /\ error = "none"
    /\ \E character_ap_id \in CharacterItemIds :
           /\ on_character_or_episode_unlocked(character_ap_id)
           /\ last_receipt' = [handler |-> "on_character_or_episode_unlocked",
                               item |-> character_ap_id]
    /\ UNCHANGED <<genericVars, studVars, unlocked_episodes, mirrorVars, save_data, freePlayVars,
                   freePlayMemory, connectionVars, checked_locations,
                   pollVars, detector, shopVars, minikitVars, minikitMemory,
                   displayVars, displayMemory>>

\* AcquiredGeneric.receive_generic, the Episode Unlock branch.
ReceiveEpisodeUnlock ==
    /\ error = "none"
    /\ \E ap_item_id \in DOMAIN EPISODE_UNLOCKS :
           /\ unlocked_episodes' =
                  unlocked_episodes \cup {EPISODE_UNLOCKS[ap_item_id]}
           /\ on_character_or_episode_unlocked(ap_item_id)
           /\ last_receipt' = [handler |-> "receive_generic",
                               item |-> ap_item_id]
    /\ UNCHANGED <<genericVars, studVars, mirrorVars, save_data, freePlayVars,
                   freePlayMemory, connectionVars, checked_locations,
                   pollVars, detector, shopVars, minikitVars, minikitMemory,
                   displayVars, displayMemory>>

-----------------------------------------------------------------------------
(***************************************************************************)
(* Locations and the Fact Store.  A location id is formed from the         *)
(* chapter's position and the kind of check; the session acknowledges      *)
(* locations by adding them to checked_locations.                          *)
(***************************************************************************)

\* Number of "Minikit i" locations per chapter (10 in the game).
NumMinikitChecks == 2

AreaIndex(area) == CHOOSE i \in DOMAIN CHAPTER_AREAS : CHAPTER_AREAS[i] = area

\* LOCATION_NAME_TO_ID[f"{short_name} Completion"]
CompletionLocationId(area) == 100 * AreaIndex(area) + 1

\* LOCATION_NAME_TO_ID[f"{short_name} True Jedi"]
TrueJediLocationId(area) == 100 * AreaIndex(area) + 2

\* LOCATION_NAME_TO_ID[f"{short_name} Minikit {i}"]
MinikitLocationId(area, i) == 100 * AreaIndex(area) + 10 + i

CompletionLocations == {CompletionLocationId(a) : a \in ALL_CHAPTER_AREAS_SET}

\* ctx.missing_locations: the locations the session has not acknowledged.
MissingLocations(all_locations) == all_locations \ checked_locations

\* ctx.is_location_sendable
IsLocationSendable(ap_id) == ap_id \notin checked_locations

-----------------------------------------------------------------------------
(***************************************************************************)
(* The chapter mirror: UnlockedChapterManager.update_game_state.           *)
(***************************************************************************)

\* CantinaRoom values the player can be in: NOT_IN_CANTINA, EPISODE_1,
\* EPISODE_2.
CantinaRooms == {-1, 1, 2}

\* Mutation of lines 75-76: the shop's selection alone completes every
\* Story mode, whatever the number of unlocked episodes.
TemporaryStoryCompletionWithoutEpisodes ==
    IF all_episodes_character_selected
    THEN ALL_CHAPTER_AREAS_SET
    ELSE IF cantina_room \in DOMAIN unlocked_chapters_per_episode
         THEN unlocked_chapters_per_episode[cantina_room]
         ELSE {}

\* Mutation of line 93: every chapter of the episode whose room the player
\* is in is completed, unlocked or not.
TemporaryStoryCompletionWholeRoom ==
    IF Cardinality(unlocked_episodes) = 6 /\ all_episodes_character_selected
    THEN ALL_CHAPTER_AREAS_SET
    ELSE IF cantina_room \in DOMAIN unlocked_chapters_per_episode
         THEN {area \in ALL_CHAPTER_AREAS_SET : Episode(area) = cantina_room}
         ELSE {}

\* Lines 75-96: the chapters whose Story mode is temporarily completed.
TemporaryStoryCompletion ==
    IF Cardinality(unlocked_episodes) = 6 /\ all_episodes_character_selected
    THEN ALL_CHAPTER_AREAS_SET
    ELSE IF cantina_room \in DOMAIN unlocked_chapters_per_episode
         THEN unlocked_chapters_per_episode[cantina_room]
         ELSE {}

\* Mutation of lines 103-120: a chapter completed in Free Play is written
\* as a chapter whose Story mode is complete.
ChapterBytesStoryOnly(area, temporary_story_completion) ==
    IF area \in completed_free_play \cup temporary_story_completion
    THEN <<1, 1>>
    ELSE IF area \in unlocked_chapters_per_episode[Episode(area)]
         THEN <<1, 0>>
         ELSE <<0, 0>>

\* Mutation of lines 103-120: the unlocked chapters are tested first.
ChapterBytesUnlockedFirst(area, temporary_story_completion) ==
    IF area \in unlocked_chapters_per_episode[Episode(area)] THEN <<1, 0>>
    ELSE IF area \in completed_free_play THEN <<3, 1>>
    ELSE IF area \in temporary_story_completion THEN <<1, 1>>
    ELSE <<0, 0>>

\* Lines 103-120: the two bytes written at area.address.
ChapterBytes(area, temporary_story_completion) ==
    IF area \in completed_free_play THEN <<3, 1>>
    ELSE IF area \in temporary_story_completion THEN <<1, 1>>
    ELSE IF area \in unlocked_chapters_per_episode[Episode(area)]
         THEN <<1, 0>>
         ELSE <<0, 0>>

\* The poll loop runs the detectors and mirrors of a connection only after
\* the free-play checker has read the save data.
PollLoopReady == initial_setup_complete /\ error = "none"

\* UnlockedChapterManager.update_game_state
UpdateChapterGameState ==
    /\ PollLoopReady
    /\ save_data' =
           [area \in ALL_CHAPTER_AREAS_SET |->
               WriteRecordBytes(save_data[area], UNLOCKED_OFFSET,
                                ChapterBytes(area, TemporaryStoryCompletion))]
    /\ UNCHANGED <<genericVars, receiptVars, chapterVars, mirrorVars, freePlayVars, freePlayMemory,
                   connectionVars, checked_locations, pollVars, detector,
                   shopVars, minikitVars, minikitMemory, displayVars,
                   displayMemory>>

\* The player walks to another room of the Cantina, or leaves it.
PlayerChangesRoom ==
    /\ \E room \in CantinaRooms \ {cantina_room} : cantina_room' = room
    /\ UNCHANGED <<genericVars, receiptVars, chapterVars, all_episodes_character_selected, save_data,
                   freePlayVars, freePlayMemory, connectionVars,
                   checked_locations, pollVars, detector, shopVars,
                   minikitVars, minikitMemory, displayVars, displayMemory>>

\* The player selects or deselects an 'all episodes' character in the shop.
PlayerSelectsShopCharacter ==
    /\ all_episodes_character_selected' = ~all_episodes_character_selected
    /\ UNCHANGED <<genericVars, receiptVars, chapterVars, cantina_room, save_data, freePlayVars,
                   freePlayMemory, connectionVars, checked_locations,
                   pollVars, detector, shopVars, minikitVars, minikitMemory,
                   displayVars, displayMemory>>

-----------------------------------------------------------------------------
(***************************************************************************)
(* FreePlayChapterCompletionChecker.                                       *)
(***************************************************************************)

STATUS_LEVEL_TYPE_LEVEL_COMPLETION == 0
STATUS_LEVEL_TYPE_SAVE_AND_EXIT == 8
CURRENT_GAME_MODE_STORY == 0
CURRENT_GAME_MODE_FREE_PLAY == 1

\* A level id that is no chapter's status level.
OtherLevelId == 1

STATUS_LEVEL_ID_TO_AREA ==
    [level_id \in {StatusLevelId(a) : a \in ALL_CHAPTER_AREAS_SET} |->
        CHOOSE a \in ALL_CHAPTER_AREAS_SET : StatusLevelId(a) = level_id]

STATUS_LEVEL_ID_TO_AP_ID ==
    [level_id \in DOMAIN STATUS_LEVEL_ID_TO_AREA |->
        CompletionLocationId(STATUS_LEVEL_ID_TO_AREA[level_id])]

\* The byte that marks a chapter as completed in Free Play.
FreePlayCompletedByte == 3

\* read_completed_free_play_from_save_data: the chapters found completed.
ReadCompletedFreePlayFromSaveData ==
    {area \in ALL_CHAPTER_AREAS_SET :
        save_data[area][UNLOCKED_OFFSET] = FreePlayCompletedByte}

\* initialize
Initialize ==
    /\ error = "none"
    /\ ~initial_setup_complete
    /\ completed_free_play' =
           completed_free_play \cup ReadCompletedFreePlayFromSaveData
    /\ sent_locations' =
           sent_locations \cup
           {STATUS_LEVEL_ID_TO_AP_ID[StatusLevelId(area)] :
               area \in ReadCompletedFreePlayFromSaveData}
    /\ initial_setup_complete' = TRUE
    /\ UNCHANGED <<genericVars, receiptVars, chapterVars, mirrorVars, save_data, freePlayMemory,
                   connectionVars, checked_locations, pollVars, detector,
                   shopVars, minikitVars, minikitMemory, displayVars,
                   displayMemory>>

\* is_in_free_play
IsInFreePlay == current_game_mode = CURRENT_GAME_MODE_FREE_PLAY

\* Mutation of is_status_level_completion: the status screen of 'Save and
\* Exit' counts as well.
IsStatusLevelCompletionOrSaveAndExit ==
    status_level_type \in {STATUS_LEVEL_TYPE_LEVEL_COMPLETION,
                           STATUS_LEVEL_TYPE_SAVE_AND_EXIT}

\* is_status_level_completion
IsStatusLevelCompletion ==
    status_level_type = STATUS_LEVEL_TYPE_LEVEL_COMPLETION

\* check_completion, lines 105-108: the condition that records a completion.
CompletionObserved ==
    /\ current_level_id \in DOMAIN STATUS_LEVEL_ID_TO_AP_ID
    /\ STATUS_LEVEL_ID_TO_AP_ID[current_level_id]
           \in MissingLocations(CompletionLocations)
    /\ IsInFreePlay
    /\ IsStatusLevelCompletion

\* Mutation of line 116: the set is emptied.
PruneSentLocationsCleared(sent) == {}

\* Mutation of line 116: the acknowledged locations are kept.
PruneSentLocationsKept(sent) == sent

\* check_completion, line 116
PruneSentLocations(sent) == sent \ checked_locations

\* Mutation of line 120: the list is left as it was.
ExtendSkipped(checks, sent) == checks

\* check_completion, line 120: new_location_checks.extend(self.sent_locations)
Extend(checks, sent) == checks \o SetToSeq(sent)

\* A poll's bookkeeping: the list it filled, the one before, and how many
\* polls have seen the present memory and Fact Store.
PollResult(checks) ==
    /\ new_location_checks' = checks
    /\ previous_location_checks' = new_location_checks
    /\ polls_on_same_state' = IF polls_on_same_state < 2
                              THEN polls_on_same_state + 1 ELSE 2

\* The game or the session changed what the detectors read; the lists of
\* the polls before have been sent.
StateChanged ==
    /\ polls_on_same_state' = 0
    /\ poll_calls' = <<>>
    /\ new_location_checks' = <<>>
    /\ previous_location_checks' = <<>>

\* Mutation of lines 103-108: the kind of the status screen is read before
\* the level id.
CheckCompletionCallsFlagFirst ==
    <<"read_status_level_type">> \o
    (IF IsStatusLevelCompletion
     THEN <<"read_current_level_id">> \o
          (IF /\ current_level_id \in DOMAIN STATUS_LEVEL_ID_TO_AP_ID
              /\ STATUS_LEVEL_ID_TO_AP_ID[current_level_id]
                     \in MissingLocations(CompletionLocations)
           THEN <<"read_current_game_mode">> \o
                (IF IsInFreePlay THEN <<"write_byte">> ELSE <<>>)
           ELSE <<>>)
     ELSE <<>>)

\* check_completion, lines 103-112: the memory calls it issues, in order.
\* The conditions of lines 105-108 are evaluated left to right and the
\* first that fails ends the evaluation.
CheckCompletionCalls ==
    <<"read_current_level_id">> \o
    (IF /\ current_level_id \in DOMAIN STATUS_LEVEL_ID_TO_AP_ID
        /\ STATUS_LEVEL_ID_TO_AP_ID[current_level_id]
               \in MissingLocations(CompletionLocations)
     THEN <<"read_current_game_mode">> \o
          (IF IsInFreePlay
           THEN <<"read_status_level_type">> \o
                (IF IsStatusLevelCompletion THEN <<"write_byte">> ELSE <<>>)
           ELSE <<>>)
     ELSE <<>>)

\* check_completion
CheckCompletion ==
    /\ PollLoopReady
    /\ poll_calls' = CheckCompletionCalls
    /\ LET observed == CompletionObserved
           area == STATUS_LEVEL_ID_TO_AREA[current_level_id]
           sent == IF observed
                   THEN sent_locations
                            \cup {STATUS_LEVEL_ID_TO_AP_ID[current_level_id]}
                   ELSE sent_locations
       IN /\ completed_free_play' =
                 IF observed THEN completed_free_play \cup {area}
                 ELSE completed_free_play
          /\ save_data' =
                 IF observed
                 THEN [save_data EXCEPT ![area] =
                          WriteRecordBytes(@, UNLOCKED_OFFSET,
                                           <<FreePlayCompletedByte>>)]
                 ELSE save_data
          /\ sent_locations' = PruneSentLocations(sent)
          /\ PollResult(Extend(<<>>, PruneSentLocations(sent)))
    /\ UNCHANGED <<genericVars, receiptVars, chapterVars, mirrorVars, initial_setup_complete,
                   freePlayMemory, connectionVars, checked_locations,
                   detector, shopVars, minikitVars, minikitMemory,
                   displayVars, displayMemory>>

\* The level, the game mode or the kind of status screen changes.
GameChangesLevel ==
    /\ \/ /\ \E level_id \in (DOMAIN STATUS_LEVEL_ID_TO_AP_ID
                                   \cup {OtherLevelId}) \ {current_level_id} :
                  current_level_id' = level_id
          /\ UNCHANGED <<current_game_mode, status_level_type>>
       \/ /\ \E mode \in {CURRENT_GAME_MODE_STORY,
                           CURRENT_GAME_MODE_FREE_PLAY} \ {current_game_mode} :
                  current_game_mode' = mode
          /\ UNCHANGED <<current_level_id, status_level_type>>
       \/ /\ \E type \in {STATUS_LEVEL_TYPE_LEVEL_COMPLETION,
                           STATUS_LEVEL_TYPE_SAVE_AND_EXIT}
                              \ {status_level_type} :
                  status_level_type' = type
          /\ UNCHANGED <<current_level_id, current_game_mode>>
    /\ StateChanged
    /\ UNCHANGED <<genericVars, receiptVars, chapterVars, mirrorVars, save_data, freePlayVars,
                   connectionVars, checked_locations, detector, shopVars,
                   minikitVars, minikitMemory, displayVars, displayMemory>>

\* The session acknowledges a location of the set `locations`.
Acknowledge(locations) ==
    /\ \E ap_id \in locations \ checked_locations :
           checked_locations' = checked_locations \cup {ap_id}
    /\ StateChanged

AcknowledgeCompletion ==
    /\ Acknowledge(CompletionLocations)
    /\ UNCHANGED <<genericVars, receiptVars, chapterVars, mirrorVars, save_data, freePlayVars,
                   freePlayMemory, connectionVars, detector, shopVars,
                   minikitVars, minikitMemory, displayVars, displayMemory>>

\* Number of checker instances a behaviour creates.
MaxConnections == 2

\* The client reconnects: the checker is created anew (__init__).
Reconnect ==
    /\ error = "none"
    /\ initial_setup_complete
    /\ connection < MaxConnections
    /\ connection' = connection + 1
    /\ previous_completed_free_play' = completed_free_play
    /\ sent_locations' = {}
    /\ completed_free_play' = {}
    /\ initial_setup_complete' = FALSE
    /\ new_location_checks' = <<>>
    /\ previous_location_checks' = <<>>
    /\ polls_on_same_state' = 0
    /\ poll_calls' = <<>>
    /\ UNCHANGED <<genericVars, receiptVars, chapterVars, mirrorVars, save_data, freePlayMemory,
                   checked_locations, detector, shopVars, minikitVars,
                   minikitMemory, displayVars, displayMemory>>

-----------------------------------------------------------------------------
(***************************************************************************)
(* BasePurchasesChecker (PurchasedCharactersChecker).                      *)
(***************************************************************************)

\* character.shop_slot of the characters that have a "Purchase" location.
ShopSlots == {0, 1, 9, 16}

\* A shop slot whose character has no location (character.code == -1).
UnimplementedShopSlot == 8

\* LOCATION_NAME_TO_ID[f"Purchase {character.name}"]
PurchaseLocationId(shop_slot) == 1000 + shop_slot

PurchaseLocations == {PurchaseLocationId(s) : s \in ShopSlots}

RECURSIVE ShiftLeft(_, _)
\* Python's 1 << n
ShiftLeft(x, n) == IF n = 0 THEN x ELSE ShiftLeft(2 * x, n - 1)

\* _characters_to_shop_address: byte offset and bit mask of a shop slot.
ByteOffset(shop_slot) == shop_slot \div 8
SlotBitMask(shop_slot) == ShiftLeft(1, shop_slot % 8)

\* _characters_to_shop_address
ShopOffsetsToApLocationIds ==
    [byte_offset \in {ByteOffset(s) : s \in ShopSlots} |->
        [bit_mask \in {SlotBitMask(s) :
                          s \in {t \in ShopSlots : ByteOffset(t) = byte_offset}}
            |-> PurchaseLocationId(
                    CHOOSE s \in ShopSlots :
                        /\ ByteOffset(s) = byte_offset
                        /\ SlotBitMask(s) = bit_mask)]]

ShopByteOffsets == 0 .. Max(DOMAIN ShopOffsetsToApLocationIds)

\* check_extra_purchases, lines 27-32: the entries still sendable.
UpdatedRemainingPurchases ==
    LET updated_bit_to_ap_id(byte_offset) ==
            LET bit_mask_to_ap_id == remaining_purchases[byte_offset]
                kept == {bit \in DOMAIN bit_mask_to_ap_id :
                            IsLocationSendable(bit_mask_to_ap_id[bit])}
            IN [bit \in kept |-> bit_mask_to_ap_id[bit]]
        offsets == {byte_offset \in DOMAIN remaining_purchases :
                       DOMAIN updated_bit_to_ap_id(byte_offset) # {}}
    IN [byte_offset \in offsets |-> updated_bit_to_ap_id(byte_offset)]

\* Mutation of lines 35-38: the read starts at the first byte of the shop.
PurchasesReadSpanFromStart(updated_remaining_purchases) ==
    <<0, Max(DOMAIN updated_remaining_purchases) + 1>>

\* check_extra_purchases, lines 35-38: the one read, as <<first offset,
\* number of bytes>>.
PurchasesReadSpan(updated_remaining_purchases) ==
    LET min_byte_offset == Min(DOMAIN updated_remaining_purchases)
        max_byte_offset == Max(DOMAIN updated_remaining_purchases)
    IN <<min_byte_offset, max_byte_offset - min_byte_offset + 1>>

\* ctx.read_bytes(self.shop_address + first, num_bytes)
ReadShopBytes(first, num_bytes) ==
    [i \in 1..num_bytes |-> shop_bytes[first + i - 1]]

\* Mutation of line 43: the byte is tested without the mask.
PurchaseByteSet(shop_byte, bit_mask) == shop_byte # 0

\* check_extra_purchases, line 43
PurchaseBitSet(shop_byte, bit_mask) == BitAnd(shop_byte, bit_mask) # 0

\* check_extra_purchases, lines 40-44: the ids appended, in dict order.
PurchasedApIds(updated_remaining_purchases) ==
    LET span == PurchasesReadSpan(updated_remaining_purchases)
        characters_shop_bytes == ReadShopBytes(span[1], span[2])
        hit(byte_offset) ==
            LET shop_byte == characters_shop_bytes[byte_offset - span[1] + 1]
                bit_mask_to_ap_id == updated_remaining_purchases[byte_offset]
            IN {bit_mask_to_ap_id[bit_mask] :
                   bit_mask \in {b \in DOMAIN bit_mask_to_ap_id :
                                    PurchaseBitSet(shop_byte, b)}}
    IN SetToSeq(UNION {hit(o) : o \in DOMAIN updated_remaining_purchases})

\* check_extra_purchases
CheckExtraPurchases ==
    /\ LET updated_remaining_purchases == UpdatedRemainingPurchases IN
       /\ IF DOMAIN updated_remaining_purchases # {}
          THEN /\ shop_reads' =
                      <<PurchasesReadSpan(updated_remaining_purchases)>>
               /\ poll_calls' = <<"read_bytes">>
               /\ PollResult(PurchasedApIds(updated_remaining_purchases))
          ELSE /\ shop_reads' = <<>>
               /\ poll_calls' = <<>>
               /\ PollResult(<<>>)
       /\ remaining_purchases' = updated_remaining_purchases
    /\ UNCHANGED <<genericVars, receiptVars, chapterVars, mirrorVars, save_data, freePlayVars,
                   freePlayMemory, connectionVars, checked_locations,
                   detector, shop_bytes, minikitVars, minikitMemory,
                   displayVars, displayMemory>>

\* The player buys the character of a shop slot: the game sets its bit.
PlayerPurchases ==
    /\ \E shop_slot \in ShopSlots \cup {UnimplementedShopSlot} :
           /\ ~PurchaseBitSet(shop_bytes[ByteOffset(shop_slot)],
                              SlotBitMask(shop_slot))
           /\ shop_bytes' =
                  [shop_bytes EXCEPT ![ByteOffset(shop_slot)] =
                      @ + SlotBitMask(shop_slot)]
    /\ StateChanged
    /\ UNCHANGED <<genericVars, receiptVars, chapterVars, mirrorVars, save_data, freePlayVars,
                   freePlayMemory, connectionVars, checked_locations,
                   detector, remaining_purchases, shop_reads, minikitVars,
                   minikitMemory, displayVars, displayMemory>>

AcknowledgePurchase ==
    /\ Acknowledge(PurchaseLocations)
    /\ UNCHANGED <<genericVars, receiptVars, chapterVars, mirrorVars, save_data, freePlayVars,
                   freePlayMemory, connectionVars, detector, shopVars,
                   minikitVars, minikitMemory, displayVars, displayMemory>>

-----------------------------------------------------------------------------
(***************************************************************************)
(* TrueJediAndMinikitChecker.  A poll threads the record                   *)
(*   [true_jedi, minikits, checks]                                         *)
(* (the two remaining collections and new_location_checks) through the     *)
(* live and the save-data paths.                                           *)
(***************************************************************************)

ALL_GAME_AREA_SHORTNAMES == ALL_CHAPTER_AREAS_SET

\* tuple(enumerate(data["Minikits"], start=1)), with the location's id in
\* place of its name.
ALL_MINIKIT_CHECKS_BY_SHORTNAME ==
    [area \in ALL_GAME_AREA_SHORTNAMES |->
        [i \in 1..NumMinikitChecks |-> <<i, MinikitLocationId(area, i)>>]]

AREA_ID_TO_CHAPTER_AREA ==
    [area_id \in {AreaId(a) : a \in ALL_CHAPTER_AREAS_SET} |->
        CHOOSE a \in ALL_CHAPTER_AREAS_SET : AreaId(a) = area_id]

\* The Area ID of the Cantina.
CantinaAreaId == 66

\* Mutation of lines 117 and 166: the acknowledged checks are kept.
NotCheckedMinikitsKept(remaining_minikits) == remaining_minikits

\* Lines 113-119 and 162-168: the checks the session has not acknowledged.
NotCheckedMinikits(remaining_minikits) ==
    SelectSeq(remaining_minikits, LAMBDA check : check[2] \notin checked_locations)

\* Mutation of lines 126 and 175: the counter has to exceed the count.
MinikitCountExceeded(minikit_count, count) == minikit_count > count

\* Lines 126 and 175: the comparison of the counter with a check's count.
MinikitCountReached(minikit_count, count) == minikit_count >= count

\* Lines 124-127 and 173-176: the ids appended for one chapter.
MinikitChecksReached(updated_remaining_minikits, minikit_count) ==
    LET reached == SelectSeq(updated_remaining_minikits,
                       LAMBDA check : MinikitCountReached(minikit_count, check[1]))
    IN [i \in DOMAIN reached |-> reached[i][2]]

\* Mutation of _check_minikits_from_current_area: the checks it appends
\* leave the remaining list, so that the save-data path does not see them.
CheckMinikitsFromCurrentAreaRemoving(st, current_area) ==
    IF current_area \notin DOMAIN st.minikits THEN st
    ELSE LET updated_remaining_minikits ==
                 NotCheckedMinikits(st.minikits[current_area]) IN
         IF updated_remaining_minikits # <<>>
         THEN [st EXCEPT
                  !.minikits[current_area] =
                      SelectSeq(updated_remaining_minikits,
                                LAMBDA check : ~MinikitCountReached(
                                    current_area_minikit_count, check[1])),
                  !.checks = @ \o MinikitChecksReached(
                                      updated_remaining_minikits,
                                      current_area_minikit_count)]
         ELSE [st EXCEPT !.minikits = DelKey(@, current_area)]

\* _check_minikits_from_current_area
CheckMinikitsFromCurrentArea(st, current_area) ==
    IF current_area \notin DOMAIN st.minikits THEN st
    ELSE LET updated_remaining_minikits ==
                 NotCheckedMinikits(st.minikits[current_area]) IN
         IF updated_remaining_minikits # <<>>
         THEN [st EXCEPT
                  !.minikits[current_area] = updated_remaining_minikits,
                  !.checks = @ \o MinikitChecksReached(
                                      updated_remaining_minikits,
                                      current_area_minikit_count)]
         ELSE [st EXCEPT !.minikits = DelKey(@, current_area)]

\* Mutation of line 97: studs equal to the meter's value confirm True Jedi.
TrueJediStudsReachedInclusive ==
    (p1_studs + p2_studs) >= true_jedi_meter_studs

\* Line 97: True Jedi is known to be complete.
TrueJediStudsReached == (p1_studs + p2_studs) > true_jedi_meter_studs

\* _check_true_jedi_from_current_area
CheckTrueJediFromCurrentArea(st, current_area) ==
    IF current_area \notin st.true_jedi THEN st
    ELSE IF TrueJediLocationId(current_area) \in checked_locations
         THEN [st EXCEPT !.true_jedi = @ \ {current_area}]
         ELSE IF TrueJediStudsReached
              THEN [st EXCEPT
                       !.checks = Append(@, TrueJediLocationId(current_area)),
                       !.true_jedi = @ \ {current_area}]
              ELSE st

\* get_bytes_for_short_name: ctx.read_bytes(address + 3, 3), of which
\* read_bytes[0] is the True Jedi byte and read_bytes[2] the Minikit count.
SaveDataReadOffset == 3
GetBytesForShortName(short_name) ==
    LET read_bytes == [i \in 0..2 |->
                          save_data[short_name][SaveDataReadOffset + i]]
    IN <<read_bytes[0], read_bytes[2]>>

\* Lines 150-158: one iteration of the loop over the remaining True Jedi.
SaveDataTrueJediStep(st, shortname) ==
    IF shortname \notin st.true_jedi THEN st
    ELSE IF TrueJediLocationId(shortname) \in checked_locations
         THEN [st EXCEPT !.true_jedi = @ \ {shortname}]
         ELSE IF GetBytesForShortName(shortname)[1] # 0
              THEN [st EXCEPT
                       !.checks = Append(@, TrueJediLocationId(shortname))]
              ELSE st

\* Mutation of lines 169-176: a chapter all of whose checks are acknowledged
\* gets the checks of the table again instead of leaving the dict.
SaveDataMinikitStepReseeding(st, shortname) ==
    IF shortname \notin DOMAIN st.minikits THEN st
    ELSE LET updated_remaining_minikits ==
                 NotCheckedMinikits(st.minikits[shortname]) IN
         IF updated_remaining_minikits # <<>>
         THEN [st EXCEPT
                  !.minikits[shortname] = updated_remaining_minikits,
                  !.checks = @ \o MinikitChecksReached(
                                      updated_remaining_minikits,
                                      GetBytesForShortName(shortname)[2])]
         ELSE [st EXCEPT !.minikits[shortname] =
                             ALL_MINIKIT_CHECKS_BY_SHORTNAME[shortname]]

\* Lines 161-176: one iteration of the loop over the remaining Minikits.
SaveDataMinikitStep(st, shortname) ==
    IF shortname \notin DOMAIN st.minikits THEN st
    ELSE LET updated_remaining_minikits ==
                 NotCheckedMinikits(st.minikits[shortname]) IN
         IF updated_remaining_minikits # <<>>
         THEN [st EXCEPT
                  !.minikits[shortname] = updated_remaining_minikits,
                  !.checks = @ \o MinikitChecksReached(
                                      updated_remaining_minikits,
                                      GetBytesForShortName(shortname)[2])]
         ELSE [st EXCEPT !.minikits = DelKey(@, shortname)]

RECURSIVE SaveDataLoop(_, _, _)
\* The loops of _check_true_jedi_and_minikits_from_save_data, in the order
\* of CHAPTER_AREAS; kind selects the loop.
SaveDataLoop(st, kind, i) ==
    IF i > Len(CHAPTER_AREAS) THEN st
    ELSE SaveDataLoop(IF kind = "True Jedi"
                      THEN SaveDataTrueJediStep(st, CHAPTER_AREAS[i])
                      ELSE SaveDataMinikitStep(st, CHAPTER_AREAS[i]),
                      kind, i + 1)

\* _check_true_jedi_and_minikits_from_save_data
CheckTrueJediAndMinikitsFromSaveData(st) ==
    SaveDataLoop(SaveDataLoop(st, "True Jedi", 1), "Minikits", 1)

\* check_true_jedi_and_minikits, lines 65-69: the live paths.
CheckCurrentArea(st) ==
    IF current_area_id \in DOMAIN AREA_ID_TO_CHAPTER_AREA
    THEN LET current_area == AREA_ID_TO_CHAPTER_AREA[current_area_id] IN
         CheckTrueJediFromCurrentArea(
             CheckMinikitsFromCurrentArea(st, current_area), current_area)
    ELSE st

\* check_true_jedi_and_minikits as a function of the checker's state.
TrueJediAndMinikitPoll ==
    CheckTrueJediAndMinikitsFromSaveData(
        CheckCurrentArea(
            [true_jedi |-> remaining_true_jedi_check_shortnames,
             minikits |-> remaining_minikit_checks_by_shortname,
             checks |-> <<>>]))

\* The checker's state when a poll begins.
CheckerState ==
    [true_jedi |-> remaining_true_jedi_check_shortnames,
     minikits |-> remaining_minikit_checks_by_shortname,
     checks |-> <<>>]

\* Lines 65-69: the memory calls of the live paths, in order.
CurrentAreaCalls ==
    <<"read_current_area_id">> \o
    (IF current_area_id \in DOMAIN AREA_ID_TO_CHAPTER_AREA
     THEN LET current_area == AREA_ID_TO_CHAPTER_AREA[current_area_id] IN
          (IF /\ current_area
                     \in DOMAIN remaining_minikit_checks_by_shortname
              /\ NotCheckedMinikits(
                     remaining_minikit_checks_by_shortname[current_area])
                     # <<>>
           THEN <<"read_current_area_minikit_count">> ELSE <<>>) \o
          (IF /\ current_area \in remaining_true_jedi_check_shortnames
              /\ TrueJediLocationId(current_area) \notin checked_locations
           THEN <<"read_p1_studs", "read_p2_studs", "read_true_jedi_studs">>
           ELSE <<>>)
     ELSE <<>>)

\* Lines 150-158: the chapters whose record the True Jedi loop reads.
SaveDataTrueJediReads(st) ==
    SelectSeq(CHAPTER_AREAS,
              LAMBDA shortname :
                  /\ shortname \in st.true_jedi
                  /\ TrueJediLocationId(shortname) \notin checked_locations)

\* Lines 161-176: the chapters whose record the Minikit loop reads, those
\* read by the True Jedi loop being cached.
SaveDataMinikitReads(st) ==
    SelectSeq(CHAPTER_AREAS,
              LAMBDA shortname :
                  /\ shortname \in DOMAIN st.minikits
                  /\ NotCheckedMinikits(st.minikits[shortname]) # <<>>
                  /\ shortname \notin Range(SaveDataTrueJediReads(st)))

\* The memory calls of a poll, in order; a read of a save record is named
\* by its chapter.
TrueJediAndMinikitCalls ==
    LET st == CheckCurrentArea(CheckerState) IN
    CurrentAreaCalls \o SaveDataTrueJediReads(st) \o SaveDataMinikitReads(st)

\* check_true_jedi_and_minikits
CheckTrueJediAndMinikits ==
    /\ poll_calls' = TrueJediAndMinikitCalls
    /\ LET st == TrueJediAndMinikitPoll IN
       /\ remaining_true_jedi_check_shortnames' = st.true_jedi
       /\ remaining_minikit_checks_by_shortname' = st.minikits
       /\ PollResult(st.checks)
    /\ UNCHANGED <<genericVars, receiptVars, chapterVars, mirrorVars, save_data, freePlayVars,
                   freePlayMemory, connectionVars, checked_locations,
                   detector, shopVars, minikitMemory, displayVars,
                   displayMemory>>


-----------------------------------------------------------------------------
(***************************************************************************)
(* A memory call of a poll raises: the calls before it have had their      *)
(* effect, the statements after it are not executed, and the list the      *)
(* poll was filling is not sent.                                           *)
(***************************************************************************)

AbandonedPoll(calls) ==
    /\ poll_calls' = calls
    /\ new_location_checks' = <<>>
    /\ previous_location_checks' = <<>>
    /\ polls_on_same_state' = 0

\* check_extra_purchases, the read of line 38 raising: line 45 is not
\* reached.
CheckExtraPurchasesAbandoned ==
    /\ DOMAIN UpdatedRemainingPurchases # {}
    /\ shop_reads' = <<PurchasesReadSpan(UpdatedRemainingPurchases)>>
    /\ AbandonedPoll(<<"read_bytes">>)
    /\ UNCHANGED <<genericVars, receiptVars, chapterVars, mirrorVars, save_data,
                   freePlayVars, freePlayMemory, connectionVars,
                   checked_locations, detector, remaining_purchases,
                   shop_bytes, minikitVars, minikitMemory, displayVars,
                   displayMemory>>

\* check_completion, its n-th memory call raising: the write of line 112
\* comes after the two sets have grown, lines 116 and 120 after the write.
CheckCompletionAbandoned ==
    /\ PollLoopReady
    /\ \E n \in 1..Len(CheckCompletionCalls) :
           /\ AbandonedPoll(SubSeq(CheckCompletionCalls, 1, n))
           /\ IF CheckCompletionCalls[n] = "write_byte"
              THEN /\ sent_locations' =
                          sent_locations
                              \cup {STATUS_LEVEL_ID_TO_AP_ID[current_level_id]}
                   /\ completed_free_play' =
                          completed_free_play
                              \cup {STATUS_LEVEL_ID_TO_AREA[current_level_id]}
              ELSE UNCHANGED <<sent_locations, completed_free_play>>
    /\ UNCHANGED <<genericVars, receiptVars, chapterVars, mirrorVars, save_data,
                   initial_setup_complete, freePlayMemory, connectionVars,
                   checked_locations, detector, shopVars, minikitVars,
                   minikitMemory, displayVars, displayMemory>>

RECURSIVE SaveDataTrueJediPrefix(_, _)
\* Lines 150-158: the first n iterations of the loop over the remaining
\* True Jedi, in the order of CHAPTER_AREAS.
SaveDataTrueJediPrefix(st, n) ==
    IF n = 0 THEN st
    ELSE SaveDataTrueJediStep(SaveDataTrueJediPrefix(st, n - 1),
                              CHAPTER_AREAS[n])

\* check_true_jedi_and_minikits, its n-th memory call raising: the
\* checker's state when the exception leaves the method.  Line 177 is not
\* reached, so the Minikit loop leaves the dict as the live path left it.
AbandonedTrueJediAndMinikitPoll(n) ==
    LET call == TrueJediAndMinikitCalls[n]
        current_area == AREA_ID_TO_CHAPTER_AREA[current_area_id]
        live == CheckCurrentArea(CheckerState)
    IN IF call = "read_current_area_id" THEN CheckerState
       ELSE IF call = "read_current_area_minikit_count"
       THEN [CheckerState EXCEPT
                !.minikits[current_area] = NotCheckedMinikits(@)]
       ELSE IF call \in {"read_p1_studs", "read_p2_studs",
                         "read_true_jedi_studs"}
       THEN CheckMinikitsFromCurrentArea(CheckerState, current_area)
       ELSE IF n <= Len(CurrentAreaCalls) + Len(SaveDataTrueJediReads(live))
       THEN SaveDataTrueJediPrefix(live, AreaIndex(call) - 1)
       ELSE SaveDataLoop(live, "True Jedi", 1)

\* check_true_jedi_and_minikits, its n-th memory call raising.
CheckTrueJediAndMinikitsAbandoned ==
    /\ \E n \in 1..Len(TrueJediAndMinikitCalls) :
           LET st == AbandonedTrueJediAndMinikitPoll(n) IN
           /\ remaining_true_jedi_check_shortnames' = st.true_jedi
           /\ remaining_minikit_checks_by_shortname' = st.minikits
           /\ AbandonedPoll(SubSeq(TrueJediAndMinikitCalls, 1, n))
    /\ UNCHANGED <<genericVars, receiptVars, chapterVars, mirrorVars, save_data,
                   freePlayVars, freePlayMemory, connectionVars,
                   checked_locations, detector, shopVars, minikitMemory,
                   displayVars, displayMemory>>

\* The chapters the player enters and saves progress for.
PlayedAreas == {"1-1"}

\* Largest stud count of a player; also the studs that fill the True Jedi
\* meter of the played chapter.
MaxStuds == 1

TrueJediAndMinikitLocations ==
    {TrueJediLocationId(a) : a \in PlayedAreas}
        \cup {MinikitLocationId(a, i) : a \in PlayedAreas,
                                        i \in 1..NumMinikitChecks}

\* The player enters a chapter or returns to the Cantina.
PlayerChangesArea ==
    /\ \E area_id \in ({AreaId(a) : a \in PlayedAreas} \cup {CantinaAreaId})
                          \ {current_area_id} :
           current_area_id' = area_id
    /\ StateChanged
    /\ UNCHANGED <<genericVars, receiptVars, chapterVars, mirrorVars, save_data, freePlayVars,
                   freePlayMemory, connectionVars, checked_locations,
                   detector, shopVars, minikitVars,
                   current_area_minikit_count, p1_studs, p2_studs,
                   true_jedi_meter_studs, displayVars, displayMemory>>

\* One of the in-level counters changes: Minikits or studs collected, or
\* their reset on entering a level.
PlayerCollects ==
    /\ \/ /\ \E count \in (0..NumMinikitChecks) \ {current_area_minikit_count} :
                  current_area_minikit_count' = count
          /\ UNCHANGED <<p1_studs, p2_studs>>
       \/ /\ \E studs \in (0..MaxStuds) \ {p1_studs} : p1_studs' = studs
          /\ UNCHANGED <<current_area_minikit_count, p2_studs>>
       \/ /\ \E studs \in (0..MaxStuds) \ {p2_studs} : p2_studs' = studs
          /\ UNCHANGED <<current_area_minikit_count, p1_studs>>
    /\ StateChanged
    /\ UNCHANGED <<genericVars, receiptVars, chapterVars, mirrorVars, save_data, freePlayVars,
                   freePlayMemory, connectionVars, checked_locations,
                   detector, shopVars, minikitVars, current_area_id,
                   true_jedi_meter_studs, displayVars, displayMemory>>

\* The game saves progress of a chapter: one of the two True Jedi bytes is
\* set, or the saved Minikit count grows.
GameSavesProgress ==
    /\ \E area \in PlayedAreas :
           \/ \E offset \in {TRUE_JEDI_COMPLETE_OFFSET,
                             TRUE_JEDI_COMPLETE_2_OFFSET} :
                  /\ save_data[area][offset] = 0
                  /\ save_data' = [save_data EXCEPT ![area][offset] = 1]
           \/ /\ save_data[area][MINIKIT_COUNT_OFFSET] < NumMinikitChecks
              /\ save_data' =
                     [save_data EXCEPT ![area][MINIKIT_COUNT_OFFSET] = @ + 1]
    /\ StateChanged
    /\ UNCHANGED <<genericVars, receiptVars, chapterVars, mirrorVars, freePlayVars, freePlayMemory,
                   connectionVars, checked_locations, detector, shopVars,
                   minikitVars, minikitMemory, displayVars, displayMemory>>

AcknowledgeTrueJediOrMinikit ==
    /\ Acknowledge(TrueJediAndMinikitLocations)
    /\ UNCHANGED <<genericVars, receiptVars, chapterVars, mirrorVars, save_data, freePlayVars,
                   freePlayMemory, connectionVars, detector, shopVars,
                   minikitVars, minikitMemory, displayVars, displayMemory>>

-----------------------------------------------------------------------------
(***************************************************************************)
(* InGameTextDisplay.  Time is counted in seconds.  The memory allocated   *)
(* for messages is zero-filled; scratch_memory holds the bytes written to  *)
(* its start, the rest of the MAX_MESSAGE_LENGTH bytes being zero.         *)
(***************************************************************************)

MAX_MESSAGE_LENGTH == 1024
WAIT_BETWEEN_MESSAGES_SECONDS == 2
\* The delay in the unit of the model's clock, the second (the code's clock
\* counts nanoseconds).
WAIT_BETWEEN_MESSAGES_NS == WAIT_BETWEEN_MESSAGES_SECONDS
\* _display_message's default display_duration_s
DISPLAY_DURATION_S == 4

\* Address of the game's "Double Score Zone!" string, and the address that
\* process.allocate returns.
VanillaStringAddress == 4096
AllocatedAddress == 8192

REBEL_TROOPER_NAME_TO_LANGUAGE ==
    [name \in {"Rebel Trooper", "Soldat rebelle"} |->
        IF name = "Rebel Trooper" THEN "ENGLISH" ELSE "FRENCH"]

\* The game images a behaviour can attach to: what the two pattern scans
\* find, the name read before the anchor, and the bytes at the game's
\* "Double Score Zone!" string.
GameImages ==
    {[anchor_found |-> TRUE, rebel_trooper_name |-> "Rebel Trooper",
      pointer_array_found |-> TRUE, text |-> <<68, 83, 0, 82>>],
     [anchor_found |-> TRUE, rebel_trooper_name |-> "Soldat rebelle",
      pointer_array_found |-> TRUE, text |-> <<90, 0, 82, 0>>],
     [anchor_found |-> FALSE, rebel_trooper_name |-> "Rebel Trooper",
      pointer_array_found |-> TRUE, text |-> <<68, 83, 0, 82>>],
     [anchor_found |-> TRUE, rebel_trooper_name |-> "Rebelsoldaat",
      pointer_array_found |-> TRUE, text |-> <<68, 83, 0, 82>>],
     [anchor_found |-> TRUE, rebel_trooper_name |-> "Rebel Trooper",
      pointer_array_found |-> FALSE, text |-> <<68, 83, 0, 82>>]}

\* The messages the client queues, as lists of code points.
Messages == {<<72>>, <<233, 33>>}

\* Longest queue explored, and the time at which the clock stops.
MaxQueue == 2
MaxTime == 8

\* bytes.partition(b"\x00")[0]
RECURSIVE BeforeNull(_)
BeforeNull(bytes) == IF bytes = <<>> \/ Head(bytes) = 0 THEN <<>>
                     ELSE <<Head(bytes)>> \o BeforeNull(Tail(bytes))

\* str.encode("utf-8") for code points below 0x800.
RECURSIVE EncodeUtf8(_)
EncodeUtf8(message) ==
    IF message = <<>> THEN <<>>
    ELSE LET c == Head(message) IN
         (IF c < 128 THEN <<c>> ELSE <<192 + (c \div 64), 128 + (c % 64)>>)
             \o EncodeUtf8(Tail(message))

\* _display_message, lines 169-171: the bytes written for a message.
EncodedMessage(message) ==
    LET encoded == EncodeUtf8(message) IN
    SubSeq(encoded, 1, Min({Len(encoded), MAX_MESSAGE_LENGTH - 1})) \o <<0>>

\* ctx.write_bytes(address, string, len(string)) on the allocated memory.
WriteBytes(memory, string) ==
    string \o SubSeq(memory, Len(string) + 1, Len(memory))

\* The zero-terminated string the game reads at the start of `memory`,
\* the bytes after those written being zero.
CString(memory) == BeforeNull(memory) \o <<0>>

\* The text the game shows for "Double Score Zone!".
DoubleScoreZoneText ==
    IF double_score_zone_pointer = AllocatedAddress
    THEN CString(scratch_memory)
    ELSE CString(game_image.text)

\* Mutation of lines 100-153: messages_enabled is set whether or not the
\* string was located.
InitializedDisplayAlwaysEnabled ==
    IF /\ game_image.anchor_found
       /\ game_image.rebel_trooper_name \in DOMAIN REBEL_TROOPER_NAME_TO_LANGUAGE
       /\ game_image.pointer_array_found
    THEN [vanilla_bytes |-> BeforeNull(game_image.text) \o <<0>>,
          double_score_zone_string_address |-> AllocatedAddress,
          double_score_zone_pointer |-> AllocatedAddress,
          messages_enabled |-> TRUE]
    ELSE [vanilla_bytes |-> vanilla_bytes,
          double_score_zone_string_address |-> double_score_zone_string_address,
          double_score_zone_pointer |-> double_score_zone_pointer,
          messages_enabled |-> TRUE]

\* _initialize, as the display's fields and the memory it leaves.
InitializedDisplay ==
    IF /\ game_image.anchor_found
       /\ game_image.rebel_trooper_name \in DOMAIN REBEL_TROOPER_NAME_TO_LANGUAGE
       /\ game_image.pointer_array_found
    THEN [vanilla_bytes |-> BeforeNull(game_image.text) \o <<0>>,
          double_score_zone_string_address |-> AllocatedAddress,
          double_score_zone_pointer |-> AllocatedAddress,
          messages_enabled |-> TRUE]
    ELSE [vanilla_bytes |-> vanilla_bytes,
          double_score_zone_string_address |-> double_score_zone_string_address,
          double_score_zone_pointer |-> double_score_zone_pointer,
          messages_enabled |-> messages_enabled]

\* The display's fields at the `now = perf_counter_ns()` of a tick.
DisplayAtTick ==
    IF initialized
    THEN [vanilla_bytes |-> vanilla_bytes,
          double_score_zone_string_address |-> double_score_zone_string_address,
          double_score_zone_pointer |-> double_score_zone_pointer,
          messages_enabled |-> messages_enabled]
    ELSE InitializedDisplay

\* queue_message
QueueMessage ==
    /\ Len(message_queue) < MaxQueue
    /\ \E message \in Messages :
           message_queue' = IF messages_enabled
                            THEN Append(message_queue, message)
                            ELSE message_queue
    /\ last_tick' = "none"
    /\ UNCHANGED <<genericVars, receiptVars, chapterVars, mirrorVars, save_data, freePlayVars,
                   freePlayMemory, connectionVars, checked_locations,
                   pollVars, detector, shopVars, minikitVars, minikitMemory,
                   initialized, messages_enabled, memory_dirty,
                   next_allowed_message_time, next_allowed_clean_time,
                   vanilla_bytes, double_score_zone_string_address,
                   scratch_memory, double_score_zone_pointer,
                   double_score_zone_timer, game_flags, clock, hooked,
                   game_image, head_ticks, initialize_calls>>

\* Mutation of lines 205-214: the depth of the opened menus is not read.
SafeToInterruptIgnoringMenus ==
    /\ game_flags.paused_or_status_when_0 # 0
    /\ game_flags.tabbed_out_when_1 # 1
    /\ game_flags.is_playing_when_0 = 0
    /\ 1 <= game_flags.game_state /\ game_flags.game_state <= 2

\* update_game_state, lines 205-214: the game can show a new message.
SafeToInterrupt ==
    /\ game_flags.paused_or_status_when_0 # 0
    /\ game_flags.tabbed_out_when_1 # 1
    /\ game_flags.opened_menu_depth = 0
    /\ game_flags.is_playing_when_0 = 0
    /\ 1 <= game_flags.game_state /\ game_flags.game_state <= 2

\* Mutation of line 194: the tick also returns at the very time from which
\* the next message is allowed.
MessageDelayPendingInclusive(now) == now <= next_allowed_message_time

\* update_game_state, line 195: the time of the next message has not come.
MessageDelayPending(now) == now < next_allowed_message_time

\* Mutation of line 198: memory_dirty is not tested.
CleanDueIgnoringDirty(now) == now > next_allowed_clean_time

\* update_game_state, line 199: the vanilla string is to be written back.
CleanDue(now) == memory_dirty /\ now > next_allowed_clean_time

\* Mutation of lines 181-182: the memory may be cleaned from the time of
\* the display on.
NextAllowedCleanTimeAtDisplay(now) == now

\* _display_message, lines 180-182: the two times, from its own clock read.
NextAllowedMessageTime(now) == now + WAIT_BETWEEN_MESSAGES_NS
NextAllowedCleanTime(now) ==
    Max({now + (DISPLAY_DURATION_S + 1),
         NextAllowedMessageTime(now)})

\* Mutation of line 215: the newest message is taken (deque.pop).
PopRight(queue) ==
    [message |-> queue[Len(queue)],
     rest |-> SubSeq(queue, 1, Len(queue) - 1)]

\* Mutation of line 215: the oldest message is read and left in the queue
\* (message_queue[0]).
PeekLeft(queue) == [message |-> Head(queue), rest |-> queue]

\* update_game_state, line 215: self.message_queue.popleft()
PopLeft(queue) == [message |-> Head(queue), rest |-> Tail(queue)]

\* Most ticks counted for one message.
MaxUnsafeTicks == 6

\* The ticks that found the message now at the head of the queue ready (the
\* delay elapsed) and the game unsafe to interrupt; the count starts anew
\* once a message has been displayed.
UnsafeTicksBefore == IF head_ticks.displayed THEN 0 ELSE head_ticks.unsafe

\* update_game_state; last_tick records the branch taken, head_ticks the
\* ticks the head message has waited for the game.
UpdateTextDisplay ==
    /\ hooked
    /\ LET d == DisplayAtTick
           now == clock
       IN
       /\ initialized' = TRUE
       /\ initialize_calls' = IF initialized THEN initialize_calls
                              ELSE initialize_calls + 1
       /\ messages_enabled' = d.messages_enabled
       /\ vanilla_bytes' = d.vanilla_bytes
       /\ double_score_zone_string_address' = d.double_score_zone_string_address
       /\ double_score_zone_pointer' = d.double_score_zone_pointer
       /\ IF MessageDelayPending(now)
          THEN /\ last_tick' = "waiting"
               /\ head_ticks' = [unsafe |-> 0, displayed |-> FALSE]
               /\ UNCHANGED <<message_queue, memory_dirty, scratch_memory,
                              next_allowed_message_time,
                              next_allowed_clean_time,
                              double_score_zone_timer, clock>>
          ELSE IF message_queue = <<>>
          THEN IF CleanDue(now)
               THEN /\ scratch_memory' =
                           WriteBytes(scratch_memory, d.vanilla_bytes)
                    /\ memory_dirty' = FALSE
                    /\ last_tick' = "cleaned"
                    /\ head_ticks' = [unsafe |-> 0, displayed |-> FALSE]
                    /\ UNCHANGED <<message_queue, next_allowed_message_time,
                                   next_allowed_clean_time,
                                   double_score_zone_timer, clock>>
               ELSE /\ last_tick' = "idle"
                    /\ head_ticks' = [unsafe |-> 0, displayed |-> FALSE]
                    /\ UNCHANGED <<message_queue, memory_dirty,
                                   scratch_memory, next_allowed_message_time,
                                   next_allowed_clean_time,
                                   double_score_zone_timer, clock>>
          ELSE IF SafeToInterrupt
          THEN \E later \in {clock, clock + 1} :
                    /\ later <= MaxTime
                    /\ message_queue' = PopLeft(message_queue).rest
                    /\ scratch_memory' =
                           WriteBytes(scratch_memory,
                                      EncodedMessage(
                                          PopLeft(message_queue).message))
                    /\ memory_dirty' = TRUE
                    /\ double_score_zone_timer' = DISPLAY_DURATION_S
                    /\ clock' = later
                    /\ next_allowed_message_time' =
                           NextAllowedMessageTime(later)
                    /\ next_allowed_clean_time' = NextAllowedCleanTime(later)
                    /\ last_tick' = "displayed"
                    /\ head_ticks' = [unsafe |-> UnsafeTicksBefore,
                                      displayed |-> TRUE]
          ELSE /\ last_tick' = "unsafe"
               /\ head_ticks' =
                      [unsafe |-> Min({UnsafeTicksBefore + 1, MaxUnsafeTicks}),
                       displayed |-> FALSE]
               /\ UNCHANGED <<message_queue, memory_dirty, scratch_memory,
                              next_allowed_message_time,
                              next_allowed_clean_time,
                              double_score_zone_timer, clock>>
    /\ UNCHANGED <<genericVars, receiptVars, chapterVars, mirrorVars, save_data, freePlayVars,
                   freePlayMemory, connectionVars, checked_locations,
                   pollVars, detector, shopVars, minikitVars, minikitMemory,
                   game_flags, hooked, game_image>>

\* on_unhook_game_process
OnUnhookGameProcess ==
    /\ hooked
    /\ hooked' = FALSE
    /\ message_queue' = <<>>
    /\ scratch_memory' = IF memory_dirty
                         THEN WriteBytes(scratch_memory, vanilla_bytes)
                         ELSE scratch_memory
    /\ memory_dirty' = FALSE
    /\ last_tick' = "unhooked"
    /\ head_ticks' = [unsafe |-> 0, displayed |-> FALSE]
    /\ UNCHANGED <<genericVars, receiptVars, chapterVars, mirrorVars, save_data, freePlayVars,
                   freePlayMemory, connectionVars, checked_locations,
                   pollVars, detector, shopVars, minikitVars, minikitMemory,
                   initialized, messages_enabled, next_allowed_message_time,
                   next_allowed_clean_time, vanilla_bytes,
                   double_score_zone_string_address,
                   double_score_zone_pointer, double_score_zone_timer,
                   game_flags, clock, game_image, initialize_calls>>

\* The values of the five bytes the tick reads.
AllGameFlagStates ==
    [paused_or_status_when_0 : {0, 1},
     tabbed_out_when_1 : {1, 255},
     opened_menu_depth : {0, 1},
     is_playing_when_0 : {0, 1},
     game_state : {1, 2, 8}]

\* In play (game_state 1 or 2 and the other bytes as in play), or one byte
\* not as in play.
GameFlagStates ==
    {f \in AllGameFlagStates :
        Cardinality({i \in 1..5 :
            <<f.paused_or_status_when_0 = 0, f.tabbed_out_when_1 = 1,
              f.opened_menu_depth # 0, f.is_playing_when_0 # 0,
              f.game_state = 8>>[i]}) <= 1}

\* The game pauses, opens a menu, loses focus, plays a cutscene...
GameChangesFlags ==
    /\ hooked
    /\ \E flags \in GameFlagStates \ {game_flags} : game_flags' = flags
    /\ last_tick' = "none"
    /\ UNCHANGED <<genericVars, receiptVars, chapterVars, mirrorVars, save_data, freePlayVars,
                   freePlayMemory, connectionVars, checked_locations,
                   pollVars, detector, shopVars, minikitVars, minikitMemory,
                   displayVars, scratch_memory, double_score_zone_pointer,
                   double_score_zone_timer, clock, hooked, game_image,
                   head_ticks, initialize_calls>>

\* A second passes; the game counts the timer of the text down.
TimePasses ==
    /\ hooked
    /\ clock < MaxTime
    /\ clock' = clock + 1
    /\ double_score_zone_timer' =
           IF double_score_zone_timer > 0
           THEN double_score_zone_timer - 1 ELSE 0
    /\ last_tick' = "none"
    /\ UNCHANGED <<genericVars, receiptVars, chapterVars, mirrorVars, save_data, freePlayVars,
                   freePlayMemory, connectionVars, checked_locations,
                   pollVars, detector, shopVars, minikitVars, minikitMemory,
                   displayVars, scratch_memory, double_score_zone_pointer,
                   game_flags, hooked, game_image, head_ticks,
                   initialize_calls>>

\* A second passes once the clock stands at MaxTime: the clock is kept and
\* the two times of the display are moved back instead, which leaves every
\* comparison of update_game_state as it is.  A time more than a second in
\* the past compares like one a second in the past.
TimePassesAtHorizon ==
    /\ hooked
    /\ clock = MaxTime
    /\ next_allowed_message_time' = Max({next_allowed_message_time - 1, -1})
    /\ next_allowed_clean_time' = Max({next_allowed_clean_time - 1, -1})
    /\ double_score_zone_timer' =
           IF double_score_zone_timer > 0
           THEN double_score_zone_timer - 1 ELSE 0
    /\ last_tick' = "none"
    /\ UNCHANGED <<genericVars, receiptVars, chapterVars, mirrorVars, save_data,
                   freePlayVars, freePlayMemory, connectionVars,
                   checked_locations, pollVars, detector, shopVars,
                   minikitVars, minikitMemory, initialized, messages_enabled,
                   message_queue, memory_dirty, vanilla_bytes,
                   double_score_zone_string_address, scratch_memory,
                   double_score_zone_pointer, game_flags, clock, hooked,
                   game_image, head_ticks, initialize_calls>>

\* The five bytes in play.
InPlayFlags == [paused_or_status_when_0 |-> 1, tabbed_out_when_1 |-> 255,
                opened_menu_depth |-> 0, is_playing_when_0 |-> 0,
                game_state |-> 1]

\* The player pauses the game or resumes it.
PlayerPausesOrResumes ==
    /\ hooked
    /\ game_flags' =
           IF game_flags = InPlayFlags
           THEN [InPlayFlags EXCEPT !.paused_or_status_when_0 = 0]
           ELSE InPlayFlags
    /\ last_tick' = "none"
    /\ UNCHANGED <<genericVars, receiptVars, chapterVars, mirrorVars, save_data,
                   freePlayVars, freePlayMemory, connectionVars,
                   checked_locations, pollVars, detector, shopVars,
                   minikitVars, minikitMemory, displayVars, scratch_memory,
                   double_score_zone_pointer, double_score_zone_timer, clock,
                   hooked, game_image, head_ticks, initialize_calls>>

-----------------------------------------------------------------------------
(***************************************************************************)
(* AcquiredGeneric: the counts it receives and its mirror                  *)
(* (update_game_state), which writes the byte of the bonus doors and the   *)
(* goal text.  Text is modelled as the list of its ASCII codes.            *)
(***************************************************************************)

GOAL_MINIKIT_COUNT == 54
BONUSES_BASE_ADDRESS == 8840420
CUSTOM_CHARACTER2_NAME_OFFSET == 8840504
\* The usable bytes of the 16-byte name: goal_display_text[:15]
GoalTextUsableBytes == 15

\* character_index of the characters that gate a bonus level.
CharacterIndex(name) ==
    CASE name = "Anakin's Pod" -> 51
      [] name = "Naboo Starfighter" -> 52
      [] name = "Republic Gunship" -> 53
      [] name = "Darth Vader" -> 54
      [] name = "Stormtrooper" -> 55
      [] name = "C-3PO" -> 56

BONUS_CHARACTER_REQUIREMENTS ==
    [i \in 1..4 |->
        CASE i = 1 -> {CharacterIndex("Anakin's Pod")}
          [] i = 2 -> {CharacterIndex("Naboo Starfighter")}
          [] i = 3 -> {CharacterIndex("Republic Gunship")}
          [] i = 4 -> {CharacterIndex(name) :
                          name \in {"Darth Vader", "Stormtrooper", "C-3PO"}}]

\* The characters a behaviour receives.
BonusCharacters == UNION {BONUS_CHARACTER_REQUIREMENTS[i] : i \in {1, 4}}

\* Mutation of lines 166-167: the characters a bonus level requires are not
\* looked at.
RECURSIVE UnlockedBonusesByteIgnoringCharacters(_)
UnlockedBonusesByteIgnoringCharacters(i) ==
    IF i > 6 THEN 0
    ELSE (IF i <= progressive_bonus_count
          THEN ShiftLeft(1, i - 1) ELSE 0)
             + UnlockedBonusesByteIgnoringCharacters(i + 1)

\* update_game_state, lines 163-168: the byte of the bonus doors.
RECURSIVE UnlockedBonusesByte(_)
UnlockedBonusesByte(i) ==
    IF i > 6 THEN 0
    ELSE (IF /\ i <= progressive_bonus_count
             /\ \/ i \notin DOMAIN BONUS_CHARACTER_REQUIREMENTS
                \/ BONUS_CHARACTER_REQUIREMENTS[i] = {}
                \/ BONUS_CHARACTER_REQUIREMENTS[i] \subseteq unlocked_characters
          THEN ShiftLeft(1, i - 1) ELSE 0) + UnlockedBonusesByte(i + 1)

\* str(n).encode("ascii") for n >= 0
RECURSIVE Str(_)
Str(n) == IF n < 10 THEN <<48 + n>> ELSE Str(n \div 10) \o <<48 + (n % 10)>>

\* f"{{:0{width}d}}".format(n) for n >= 0
ZeroPadded(n, width) ==
    LET digits == Str(n) IN
    IF Len(digits) >= width THEN digits
    ELSE [i \in 1..(width - Len(digits)) |-> 48] \o digits

\* Mutation of line 150: the text is cut to the 16 bytes of the field.
TruncatedToField(text) ==
    SubSeq(text, 1, Min({Len(text), GoalTextUsableBytes + 1})) \o <<0>>

\* _update_goal_display, line 150: goal_display_text[:15] + b"\x00"
Truncated(text) ==
    SubSeq(text, 1, Min({Len(text), GoalTextUsableBytes})) \o <<0>>

\* _update_goal_display: the bytes written for a count of received items.
GoalDisplayText(count) ==
    LET goal_count == Str(GOAL_MINIKIT_COUNT * 5)
        digits_to_display == Len(goal_count)
        current_minikit_count == ZeroPadded(count * 5, digits_to_display)
        \* "/", then the goal, then " GOAL"
        goal_display_text == current_minikit_count \o <<47>> \o goal_count
                                 \o <<32, 71, 79, 65, 76>>
    IN Truncated(goal_display_text)

\* A tick of the mirror as the claim has it: a write is issued only for a
\* pattern that differs from the bytes in place.
GenericWritesWhenChanged(unlocked_bonuses_byte, goal_display_text) ==
    (IF unlocked_bonuses_byte # bonuses_byte
     THEN <<[address |-> BONUSES_BASE_ADDRESS,
             bytes |-> <<unlocked_bonuses_byte>>]>>
     ELSE <<>>)
    \o (IF goal_display_text # custom_character2_name
        THEN <<[address |-> CUSTOM_CHARACTER2_NAME_OFFSET,
                bytes |-> goal_display_text]>>
        ELSE <<>>)

\* update_game_state, line 169, and _update_goal_display, line 151: the
\* writes of a tick.
GenericWrites(unlocked_bonuses_byte, goal_display_text) ==
    <<[address |-> BONUSES_BASE_ADDRESS, bytes |-> <<unlocked_bonuses_byte>>],
      [address |-> CUSTOM_CHARACTER2_NAME_OFFSET, bytes |-> goal_display_text]>>

\* AcquiredGeneric.update_game_state
UpdateGenericGameState ==
    /\ LET unlocked_bonuses_byte == UnlockedBonusesByte(1)
           goal_display_text == GoalDisplayText(acquired_minikit_count)
       IN /\ mirror_writes' =
                 GenericWrites(unlocked_bonuses_byte, goal_display_text)
          /\ bonuses_byte' = unlocked_bonuses_byte
          /\ custom_character2_name' = goal_display_text
    /\ ticks_on_same_facts' = IF ticks_on_same_facts < 2
                              THEN ticks_on_same_facts + 1 ELSE 2
    /\ UNCHANGED <<acquired_minikit_count, progressive_bonus_count, unlocked_characters,
                   receiptVars, chapterVars, mirrorVars, save_data, freePlayVars,
                   freePlayMemory, connectionVars, checked_locations,
                   pollVars, detector, shopVars, minikitVars, minikitMemory,
                   displayVars, displayMemory>>

\* The counts of "5 Minikits" items with which a behaviour starts, and the
\* number of them it receives.
StartMinikitCounts == {0, 1, 19, 53, 199, 19999, 199999, 1999999}
MaxMinikitItems == 2

\* receive_generic, the Minikits branch.
ReceiveMinikits ==
    /\ \E start \in StartMinikitCounts :
           acquired_minikit_count \in start .. (start + MaxMinikitItems - 1)
    /\ acquired_minikit_count' = acquired_minikit_count + 1
    /\ ticks_on_same_facts' = 0
    /\ last_receipt' = [handler |-> "receive_generic",
                        item |-> ItemCode("5 Minikits")]
    /\ UNCHANGED <<studVars, progressive_bonus_count, unlocked_characters, bonuses_byte,
                   custom_character2_name, mirror_writes,
                   chapterVars, mirrorVars, save_data, freePlayVars,
                   freePlayMemory, connectionVars, checked_locations,
                   pollVars, detector, shopVars, minikitVars, minikitMemory,
                   displayVars, displayMemory>>

\* Most "Progressive Bonus Level" items a behaviour receives.
MaxProgressiveBonus == 7

\* receive_generic, the Progressive Bonus Unlock branch.
ReceiveProgressiveBonus ==
    /\ progressive_bonus_count < MaxProgressiveBonus
    /\ progressive_bonus_count' = progressive_bonus_count + 1
    /\ ticks_on_same_facts' = 0
    /\ last_receipt' = [handler |-> "receive_generic",
                        item |-> ItemCode("Progressive Bonus Level")]
    /\ UNCHANGED <<studVars, acquired_minikit_count, unlocked_characters, bonuses_byte,
                   custom_character2_name, mirror_writes,
                   chapterVars, mirrorVars, save_data, freePlayVars,
                   freePlayMemory, connectionVars, checked_locations,
                   pollVars, detector, shopVars, minikitVars, minikitMemory,
                   displayVars, displayMemory>>

\* A character that gates a bonus level is received:
\* ctx.acquired_characters.unlocked_characters grows.
ReceiveBonusCharacter ==
    /\ \E character_index \in BonusCharacters \ unlocked_characters :
           /\ unlocked_characters' =
                  unlocked_characters \cup {character_index}
           /\ last_receipt' = [handler |-> "receive_character",
                               item |-> character_index]
    /\ ticks_on_same_facts' = 0
    /\ UNCHANGED <<studVars, acquired_minikit_count, progressive_bonus_count, bonuses_byte,
                   custom_character2_name, mirror_writes,
                   chapterVars, mirrorVars, save_data, freePlayVars,
                   freePlayMemory, connectionVars, checked_locations,
                   pollVars, detector, shopVars, minikitVars, minikitMemory,
                   displayVars, displayMemory>>

-----------------------------------------------------------------------------
(***************************************************************************)
(* give_studs and the remaining branches of receive_generic.  Studs are    *)
(* counted in units of 10,000, the value of a Purple Stud.                 *)
(***************************************************************************)

MAX_STUD_COUNT == 400000

STUDS_AP_ID_TO_VALUE == [code \in {ItemCode("Purple Stud")} |-> 1]

COMBINED_SCORE_MULTIPLIERS == <<1, 2, 8, 48, 384, 3840>>

\* len(SCORE_MULIPLIER_EXTRAS)
NumScoreMultiplierExtras == 5

\* AcquiredGeneric.current_score_multiplier
current_score_multiplier ==
    LET idx == Min({progressive_score_count,
                    Len(COMBINED_SCORE_MULTIPLIERS) - 1})
    IN COMBINED_SCORE_MULTIPLIERS[idx + 1]

\* Mutation of line 36: an id without a value is given a Purple Stud's.
StudsToAddDefaulting(ap_item_id) ==
    IF ap_item_id \in DOMAIN STUDS_AP_ID_TO_VALUE
    THEN {STUDS_AP_ID_TO_VALUE[ap_item_id]}
    ELSE {1}

\* STUDS_AP_ID_TO_VALUE.get(ap_item_id): the value found, or none.
StudsToAdd(ap_item_id) ==
    IF ap_item_id \in DOMAIN STUDS_AP_ID_TO_VALUE
    THEN {STUDS_AP_ID_TO_VALUE[ap_item_id]}
    ELSE {}

\* give_studs, lines 36-46: the stud count it leaves in memory.
NewStudCount(ap_item_id) ==
    IF StudsToAdd(ap_item_id) = {} THEN stud_count
    ELSE LET studs_to_add == (CHOOSE v \in StudsToAdd(ap_item_id) : TRUE)
                                 * current_score_multiplier
         IN Min({stud_count + studs_to_add, MAX_STUD_COUNT})

\* The ids give_studs is called with, and the stud counts at which a stud
\* item is received.  read_uint returns whatever the four bytes hold: a
\* count of up to 4,294,967,295, which is above MAX_STUD_COUNT.
StudItemIds == {ItemCode("Purple Stud"), ItemCode("Restart Level Trap")}
StartStudCounts ==
    {0, MAX_STUD_COUNT - 1, MAX_STUD_COUNT, MAX_STUD_COUNT + 1}

\* give_studs
GiveStuds ==
    /\ \E ap_item_id \in StudItemIds :
           /\ StudsToAdd(ap_item_id) # {} => stud_count \in StartStudCounts
           /\ stud_count' = NewStudCount(ap_item_id)
           /\ last_receipt' = [handler |-> "give_studs", item |-> ap_item_id]
    /\ UNCHANGED <<genericVars, progressive_score_count, unlocked_extras,
                   chapterVars, mirrorVars, save_data, freePlayVars,
                   freePlayMemory, connectionVars, checked_locations,
                   pollVars, detector, shopVars, minikitVars, minikitMemory,
                   displayVars, displayMemory>>

\* receive_generic, lines 116-136: the branch an id takes.
GenericBranch(ap_item_id) ==
    IF ap_item_id = ItemCode("5 Minikits") THEN "minikits"
    ELSE IF ap_item_id = ItemCode("Progressive Bonus Level") THEN "bonus"
    ELSE IF ap_item_id = ItemCode("Progressive Score Multiplier") THEN "score"
    ELSE IF ap_item_id \in DOMAIN EPISODE_UNLOCKS THEN "episode"
    ELSE "unhandled"

\* Most "Progressive Score Multiplier" items a behaviour receives.
MaxProgressiveScore == 6

\* receive_generic, the Progressive Score Multiplier branch.
ReceiveProgressiveScoreMultiplier ==
    /\ progressive_score_count < MaxProgressiveScore
    /\ unlocked_extras' =
           IF progressive_score_count < NumScoreMultiplierExtras
           THEN unlocked_extras \cup {progressive_score_count}
           ELSE unlocked_extras
    /\ progressive_score_count' = progressive_score_count + 1
    /\ last_receipt' = [handler |-> "receive_generic",
                        item |-> ItemCode("Progressive Score Multiplier")]
    /\ UNCHANGED <<genericVars, stud_count,
                   chapterVars, mirrorVars, save_data, freePlayVars,
                   freePlayMemory, connectionVars, checked_locations,
                   pollVars, detector, shopVars, minikitVars, minikitMemory,
                   displayVars, displayMemory>>

\* The ids of generic items that are received without a branch of their own
\* being reached: the NOOP_ITEMS.
NOOP_ITEMS == {ItemCode("Restart Level Trap")}

\* receive_generic, the else branch (lines 135-136): the error is logged.
ReceiveUnhandledGeneric ==
    /\ \E ap_item_id \in NOOP_ITEMS :
           /\ GenericBranch(ap_item_id) = "unhandled"
           /\ last_receipt' = [handler |-> "receive_generic",
                               item |-> ap_item_id]
    /\ UNCHANGED <<genericVars, studVars,
                   chapterVars, mirrorVars, save_data, freePlayVars,
                   freePlayMemory, connectionVars, checked_locations,
                   pollVars, detector, shopVars, minikitVars, minikitMemory,
                   displayVars, displayMemory>>

\* An item that no chapter requires is received:
\* on_character_or_episode_unlocked finds no entry for it.
ReceiveUnrequiredItem ==
    /\ error = "none"
    /\ \E character_ap_id \in NOOP_ITEMS :
           /\ on_character_or_episode_unlocked(character_ap_id)
           /\ last_receipt' = [handler |-> "on_character_or_episode_unlocked",
                               item |-> character_ap_id]
    /\ UNCHANGED <<genericVars, studVars, unlocked_episodes, mirrorVars,
                   save_data, freePlayVars,
                   freePlayMemory, connectionVars, checked_locations,
                   pollVars, detector, shopVars, minikitVars, minikitMemory,
                   displayVars, displayMemory>>

-----------------------------------------------------------------------------
(***************************************************************************)
(* Initial states: every object as its constructor leaves it, the game     *)
(* memory as the game leaves it before the client attaches.                *)
(***************************************************************************)

InitChapterManager ==
    /\ character_to_dependent_game_chapters = ManagerInit.dependents
    /\ remaining_chapter_item_requirements = ManagerInit.remaining
    /\ unlocked_chapters_per_episode = ManagerInit.unlocked
    /\ unlocked_episodes = {1}
    /\ delivered = {}
    /\ last_delivery = [item |-> 0, duplicate |-> FALSE]
    /\ error = "none"
    /\ cantina_room = -1
    /\ all_episodes_character_selected = FALSE

\* The bytes of a record that the game alone maintains, in a save whose
\* chapters were played before: True Jedi, the gold brick, three Minikits,
\* the power brick.
PlayedRecordByte(o) ==
    IF o = MINIKIT_COUNT_OFFSET THEN 3
    ELSE IF o = STORY_COMPLETE_OFFSET \/ o = CHALLENGE_COMPLETE_OFFSET THEN 0
    ELSE 1

\* The save records the game loads: a chapter is locked, or was completed
\* in Free Play under an earlier connection.
SaveImages ==
    {[area \in ALL_CHAPTER_AREAS_SET |->
         [o \in RecordOffsets |->
             IF o = UNLOCKED_OFFSET THEN b[area] ELSE PlayedRecordByte(o)]] :
     b \in [ALL_CHAPTER_AREAS_SET -> {0, FreePlayCompletedByte}]}

NewSave == [area \in ALL_CHAPTER_AREAS_SET |-> [o \in RecordOffsets |-> 0]]

InitFreePlayChecker ==
    /\ sent_locations = {}
    /\ completed_free_play = {}
    /\ initial_setup_complete = FALSE
    /\ current_level_id = OtherLevelId
    /\ current_game_mode = CURRENT_GAME_MODE_STORY
    /\ status_level_type = STATUS_LEVEL_TYPE_SAVE_AND_EXIT
    /\ connection = 1
    /\ previous_completed_free_play = {}

InitSession ==
    /\ checked_locations = {}
    /\ new_location_checks = <<>>
    /\ previous_location_checks = <<>>
    /\ polls_on_same_state = 0
    /\ poll_calls = <<>>

InitPurchasesChecker ==
    /\ remaining_purchases = ShopOffsetsToApLocationIds
    /\ shop_bytes = [o \in ShopByteOffsets |-> 0]
    /\ shop_reads = <<>>

InitTrueJediAndMinikitChecker ==
    /\ remaining_true_jedi_check_shortnames = ALL_GAME_AREA_SHORTNAMES
    /\ remaining_minikit_checks_by_shortname = ALL_MINIKIT_CHECKS_BY_SHORTNAME
    /\ current_area_id = CantinaAreaId
    /\ current_area_minikit_count = 0
    /\ p1_studs = 0
    /\ p2_studs = 0
    /\ true_jedi_meter_studs = MaxStuds

InitTextDisplay ==
    /\ initialized = FALSE
    /\ messages_enabled = FALSE
    /\ message_queue = <<>>
    /\ memory_dirty = FALSE
    /\ next_allowed_message_time = -1
    /\ next_allowed_clean_time = -1
    /\ vanilla_bytes = <<>>
    /\ double_score_zone_string_address = -1
    /\ scratch_memory = <<>>
    /\ double_score_zone_pointer = VanillaStringAddress
    /\ double_score_zone_timer = 0
    /\ game_flags = [paused_or_status_when_0 |-> 1, tabbed_out_when_1 |-> 255,
                     opened_menu_depth |-> 0, is_playing_when_0 |-> 0,
                     game_state |-> 1]
    /\ clock = 0
    /\ hooked = TRUE
    /\ last_tick = "none"
    /\ head_ticks = [unsafe |-> 0, displayed |-> FALSE]
    /\ initialize_calls = 0

\* A new save's studs, AcquiredGeneric.__init__, and no item received.
InitStudsWith(count) ==
    /\ stud_count = count
    /\ progressive_score_count = 0
    /\ unlocked_extras = {}
    /\ last_receipt = [handler |-> "none", item |-> 0]

InitStuds == InitStudsWith(0)

\* AcquiredGeneric.__init__, the bytes of a new save, and the count of
\* "5 Minikits" items received.
InitAcquiredGenericWith(count) ==
    /\ acquired_minikit_count = count
    /\ progressive_bonus_count = 0
    /\ unlocked_characters = {}
    /\ bonuses_byte = 0
    /\ custom_character2_name = <<0>>
    /\ mirror_writes = <<>>
    /\ ticks_on_same_facts = 0

InitAcquiredGeneric == InitAcquiredGenericWith(0)

\* The objects of one connection, the game image chosen.
InitObjects ==
    /\ InitAcquiredGeneric
    /\ InitStuds
    /\ InitChapterManager
    /\ InitFreePlayChecker
    /\ InitSession
    /\ InitPurchasesChecker
    /\ InitTrueJediAndMinikitChecker
    /\ InitTextDisplay

-----------------------------------------------------------------------------
(***************************************************************************)
(* Specifications.  The components share no state but the Fact Store and   *)
(* the save records, so each is explored with the others at rest.          *)
(***************************************************************************)

\* The dependency graph and the chapter mirror.
InitChapters ==
    /\ InitObjects
    /\ save_data \in SaveImages
    /\ game_image \in {CHOOSE g \in GameImages : TRUE}
    /\ detector = "none"

NextChapters ==
    \/ ReceiveCharacter
    \/ ReceiveEpisodeUnlock
    \/ Initialize
    \/ UpdateChapterGameState
    \/ PlayerChangesRoom
    \/ PlayerSelectsShopCharacter

SpecChapters == InitChapters /\ [][NextChapters]_vars

\* The free-play checker, the chapter mirror and reconnections.
InitFreePlay ==
    /\ InitObjects
    /\ save_data \in SaveImages
    /\ game_image \in {CHOOSE g \in GameImages : TRUE}
    /\ detector = "free play"

NextFreePlay ==
    \/ Initialize
    \/ CheckCompletion
    \/ GameChangesLevel
    \/ AcknowledgeCompletion
    \/ UpdateChapterGameState
    \/ Reconnect

SpecFreePlay == InitFreePlay /\ [][NextFreePlay]_vars

\* The same under the poll loop's schedule: as long as the client is
\* connected the loop keeps calling initialize and check_completion.
SpecFreePlayPolling ==
    /\ InitFreePlay
    /\ [][NextFreePlay]_vars
    /\ WF_vars(Initialize)
    /\ WF_vars(CheckCompletion)

\* A purchases checker.
InitPurchases ==
    /\ InitObjects
    /\ save_data = NewSave
    /\ game_image \in {CHOOSE g \in GameImages : TRUE}
    /\ detector = "purchases"

NextPurchases ==
    \/ CheckExtraPurchases
    \/ PlayerPurchases
    \/ AcknowledgePurchase

SpecPurchases == InitPurchases /\ [][NextPurchases]_vars

\* The True Jedi and Minikit checker.
InitMinikits ==
    /\ InitObjects
    /\ save_data = NewSave
    /\ game_image \in {CHOOSE g \in GameImages : TRUE}
    /\ detector = "true jedi and minikits"

NextMinikits ==
    \/ CheckTrueJediAndMinikits
    \/ PlayerChangesArea
    \/ PlayerCollects
    \/ GameSavesProgress
    \/ AcknowledgeTrueJediOrMinikit

SpecMinikits == InitMinikits /\ [][NextMinikits]_vars

\* The in-game text display.
InitDisplay ==
    /\ InitObjects
    /\ save_data = NewSave
    /\ game_image \in GameImages
    /\ detector = "none"

NextDisplay ==
    \/ QueueMessage
    \/ UpdateTextDisplay
    \/ OnUnhookGameProcess
    \/ GameChangesFlags
    \/ TimePasses

SpecDisplay == InitDisplay /\ [][NextDisplay]_vars

\* The display of a game whose string is located, under the poll loop's
\* schedule: the loop keeps ticking while the game is hooked, time passes,
\* and of the ticks possible infinitely often with the game safe to
\* interrupt, infinitely many occur.
InitDisplayLive ==
    /\ InitObjects
    /\ save_data = NewSave
    /\ game_image \in {g \in GameImages :
                          /\ g.anchor_found
                          /\ g.pointer_array_found
                          /\ g.rebel_trooper_name = "Rebel Trooper"}
    /\ detector = "none"

NextDisplayLive ==
    \/ QueueMessage
    \/ UpdateTextDisplay
    \/ OnUnhookGameProcess
    \/ PlayerPausesOrResumes
    \/ TimePasses
    \/ TimePassesAtHorizon

SpecDisplayLive ==
    /\ InitDisplayLive
    /\ [][NextDisplayLive]_vars
    /\ WF_vars(UpdateTextDisplay)
    /\ WF_vars(TimePasses)
    /\ WF_vars(TimePassesAtHorizon)
    /\ SF_vars(UpdateTextDisplay /\ SafeToInterrupt)

\* AcquiredGeneric and its mirror, after any number of "5 Minikits" items.
InitGeneric ==
    /\ InitChapterManager
    /\ InitFreePlayChecker
    /\ InitSession
    /\ InitPurchasesChecker
    /\ InitTrueJediAndMinikitChecker
    /\ InitTextDisplay
    /\ \E count \in StartMinikitCounts : InitAcquiredGenericWith(count)
    /\ InitStuds
    /\ save_data = NewSave
    /\ game_image \in {CHOOSE g \in GameImages : TRUE}
    /\ detector = "none"

NextGeneric ==
    \/ ReceiveMinikits
    \/ ReceiveProgressiveBonus
    \/ ReceiveBonusCharacter
    \/ UpdateGenericGameState

SpecGeneric == InitGeneric /\ [][NextGeneric]_vars

\* The receipt of items: the chapter manager, give_studs and receive_generic,
\* from a save with few studs or nearly the most.
InitReceipts ==
    /\ InitAcquiredGeneric
    /\ \E count \in StartStudCounts : InitStudsWith(count)
    /\ InitChapterManager
    /\ InitFreePlayChecker
    /\ InitSession
    /\ InitPurchasesChecker
    /\ InitTrueJediAndMinikitChecker
    /\ InitTextDisplay
    /\ save_data = NewSave
    /\ game_image \in {CHOOSE g \in GameImages : TRUE}
    /\ detector = "none"

NextReceipts ==
    \/ ReceiveCharacter
    \/ ReceiveUnrequiredItem
    \/ GiveStuds
    \/ ReceiveProgressiveScoreMultiplier
    \/ ReceiveUnhandledGeneric

SpecReceipts == InitReceipts /\ [][NextReceipts]_vars

\* The three detectors; a behaviour polls the one that `detector` names.
NextFreePlayDetector ==
    \/ Initialize
    \/ CheckCompletion
    \/ GameChangesLevel
    \/ AcknowledgeCompletion

Init ==
    /\ InitObjects
    /\ save_data = NewSave
    /\ game_image \in {CHOOSE g \in GameImages : TRUE}
    /\ detector \in {"purchases", "true jedi and minikits", "free play"}

Next ==
    \/ detector = "purchases" /\ NextPurchases
    \/ detector = "true jedi and minikits" /\ NextMinikits
    \/ detector = "free play" /\ NextFreePlayDetector

Spec == Init /\ [][Next]_vars

\* The same with memory calls that raise.
NextAbandoned ==
    \/ detector = "purchases" /\ CheckExtraPurchasesAbandoned
    \/ detector = "true jedi and minikits" /\ CheckTrueJediAndMinikitsAbandoned
    \/ detector = "free play" /\ CheckCompletionAbandoned

NextWithFailures ==
    \/ Next
    \/ NextAbandoned

SpecFailures == Init /\ [][NextWithFailures]_vars

-----------------------------------------------------------------------------
(***************************************************************************)
(* Properties of the dependency graph (UnlockedChapterManager).            *)
(***************************************************************************)

\* The item ids a chapter requires.
PrerequisiteIds(area) == {ItemCode(name) : name \in ItemRequirements(area)}

IsUnlocked(area) == area \in unlocked_chapters_per_episode[Episode(area)]

\* C1: monotonic unlock.  No call of on_character_or_episode_unlocked
\* removes a chapter from unlocked_chapters_per_episode, and no call raises:
\* a prerequisite delivered after its chapter unlocked is ignored.
C1_MonotonicUnlock ==
    [][/\ \A area \in ALL_CHAPTER_AREAS_SET : IsUnlocked(area) => IsUnlocked(area)'
       /\ error' = "none"]_vars

\* A prerequisite of an unlocked chapter has just been delivered again.
C1_Witness ==
    /\ last_delivery.duplicate
    /\ \E area \in ALL_CHAPTER_AREAS_SET :
           /\ IsUnlocked(area)
           /\ last_delivery.item \in PrerequisiteIds(area)
    /\ IsUnlocked("2-1") /\ IsUnlocked("2-5")

\* C2: after any sequence of deliveries to a freshly constructed manager, a
\* chapter is unlocked if and only if every one of its prerequisite items
\* has been delivered at least once; a chapter without prerequisites is
\* unlocked from construction.
C2_UnlockedIffAllDelivered ==
    \A area \in ALL_CHAPTER_AREAS_SET :
        IsUnlocked(area) <=> PrerequisiteIds(area) \subseteq delivered

\* Of two chapters that share "Episode 2 Unlock", the one whose character
\* was also delivered is unlocked and the other is still locked.
C2_Witness ==
    /\ ItemCode("Episode 2 Unlock") \in delivered
    /\ IsUnlocked("2-1")
    /\ ~IsUnlocked("2-5")
    /\ last_delivery.item \in PrerequisiteIds("2-1")
    /\ ~last_delivery.duplicate

\* C3: duplicate delivery is idempotent.  An item that was delivered is
\* absent from the reverse index, and a later call with the same item
\* leaves the remaining requirements, the reverse index and the unlocked
\* sets unchanged and raises nothing.
C3_DuplicateDeliveryIdempotent ==
    /\ [](\A f \in delivered :
              f \notin DOMAIN character_to_dependent_game_chapters)
    /\ [][(last_delivery'.duplicate /\ last_delivery'.item \in delivered)
              => /\ UNCHANGED <<character_to_dependent_game_chapters,
                                remaining_chapter_item_requirements,
                                unlocked_chapters_per_episode>>
                 /\ error' = "none"]_vars

\* An item of the reverse index has just been delivered for the second time.
C3_Witness ==
    /\ last_delivery.duplicate
    /\ last_delivery.item \in DOMAIN ManagerInit.dependents
    /\ error = "none"

\* C18: in every reachable state of the manager a chapter is either locked,
\* that is, present in remaining_chapter_item_requirements with a set of
\* outstanding requirements that is not empty, or unlocked, that is, in
\* the unlocked set of its episode (and of no other); never both, never
\* neither.
C18_LockedOrUnlocked ==
    \A area \in ALL_CHAPTER_AREAS_SET :
        /\ (area \in DOMAIN remaining_chapter_item_requirements)
               <=> ~IsUnlocked(area)
        /\ area \in DOMAIN remaining_chapter_item_requirements
               => remaining_chapter_item_requirements[area] # {}
        /\ \A episode \in DOMAIN unlocked_chapters_per_episode :
               area \in unlocked_chapters_per_episode[episode]
                   => episode = Episode(area)

\* 2-1 has been unlocked by deliveries while 2-5, which shares a requirement
\* with it, is locked with its own character outstanding.
C18_Witness ==
    /\ IsUnlocked("1-1")
    /\ IsUnlocked("2-1")
    /\ "2-1" \notin DOMAIN remaining_chapter_item_requirements
    /\ "2-5" \in DOMAIN remaining_chapter_item_requirements
    /\ remaining_chapter_item_requirements["2-5"] =
           {ItemCode("Republic Gunship")}

-----------------------------------------------------------------------------
(***************************************************************************)
(* Properties of the detectors.                                            *)
(***************************************************************************)

TrueJediLocations == {TrueJediLocationId(a) : a \in ALL_CHAPTER_AREAS_SET}

\* C4 as stated: polling a detector twice in a row against the same memory
\* and the same Fact Store reports a CheckId at most once, that is, no
\* CheckId of the first poll is appended again on the second.
C4_ReportedAtMostOnce ==
    polls_on_same_state >= 2 =>
        Range(previous_location_checks) \cap Range(new_location_checks) = {}

\* C4, amended: a poll never appends a CheckId the Fact Store holds, and a
\* CheckId it does not hold is appended again on every poll: of two polls in
\* a row against the same memory and Fact Store, the second appends what
\* the first appended (the purchases and the free-play checker exactly so),
\* but for a True Jedi check that the first took from the live counters.
C4_ReportedUntilAcknowledged ==
    /\ polls_on_same_state >= 1 =>
           Range(new_location_checks) \cap checked_locations = {}
    /\ polls_on_same_state >= 2 =>
           /\ Range(new_location_checks) \subseteq Range(previous_location_checks)
           /\ Range(previous_location_checks) \ Range(new_location_checks)
                  \subseteq TrueJediLocations
           /\ detector \in {"purchases", "free play"} =>
                  new_location_checks = previous_location_checks

\* The second of two polls on the same state has appended the CheckIds of
\* the first again.
C4_Witness ==
    /\ polls_on_same_state = 2
    /\ new_location_checks # <<>>
    /\ new_location_checks = previous_location_checks

\* C5: round-trip reconnection.  The initialize of a fresh checker, run
\* against the save data that the polls and the mirror's ticks of the
\* connection before left, finds exactly the chapters the previous checker
\* held as completed in Free Play, and their Completion locations.
C5_RoundTripReconnection ==
    [][(connection > 1 /\ ~initial_setup_complete /\ initial_setup_complete')
          => /\ completed_free_play' = previous_completed_free_play
             /\ sent_locations' =
                    {CompletionLocationId(area) :
                        area \in previous_completed_free_play}]_vars

\* The second checker has been initialized after the mirror wrote the save
\* data, and holds the two chapters the first one held.
C5_Witness ==
    /\ connection = 2
    /\ initial_setup_complete
    /\ Cardinality(previous_completed_free_play) = 2
    /\ completed_free_play = previous_completed_free_play
    /\ \A area \in completed_free_play :
           save_data[area][STORY_COMPLETE_OFFSET] = 1

-----------------------------------------------------------------------------
(***************************************************************************)
(* Properties of the text display's shutdown.                              *)
(***************************************************************************)

\* The first n bytes of the memory allocated for messages.
ScratchRegion(n) ==
    [i \in 1..n |-> IF i <= Len(scratch_memory) THEN scratch_memory[i] ELSE 0]

\* C6 as stated: after any queue_message calls and ticks followed by
\* on_unhook_game_process, the bytes of the text region the display uses
\* equal vanilla_bytes, the snapshot taken at initialization.
C6_ScratchRestoredAfterUnhook ==
    (last_tick = "unhooked" /\ messages_enabled)
        => ScratchRegion(Len(vanilla_bytes)) = vanilla_bytes

\* C7 as stated: after on_unhook_game_process the queue is empty, the dirty
\* flag is false, and every location the display wrote, the entry of the
\* string pointer table included, holds the value it had before.
C7_VanillaAfterUnhook ==
    last_tick = "unhooked"
        => /\ message_queue = <<>>
           /\ ~memory_dirty
           /\ double_score_zone_pointer = VanillaStringAddress

-----------------------------------------------------------------------------
(***************************************************************************)
(* Properties of the purchases checker's read.                             *)
(***************************************************************************)

\* The byte offsets a read <<first, num_bytes>> covers.
ReadOffsets(read) == read[1] .. (read[1] + read[2] - 1)

\* C8 as stated: every poll issues exactly one read, over [min_offset,
\* max_offset] of the remaining entries, and reads no byte offset all of
\* whose CheckIds are confirmed.
C8_ExactlyOneMinimalRead ==
    polls_on_same_state >= 1 =>
        /\ Len(shop_reads) = 1
        /\ ReadOffsets(shop_reads[1]) =
               Min(DOMAIN remaining_purchases) .. Max(DOMAIN remaining_purchases)
        /\ \A byte_offset \in ReadOffsets(shop_reads[1]) :
               /\ byte_offset \in DOMAIN remaining_purchases
               /\ \E bit_mask \in DOMAIN remaining_purchases[byte_offset] :
                      remaining_purchases[byte_offset][bit_mask]
                          \notin checked_locations

\* C8, amended: a poll issues no read when no entry remains and otherwise
\* one read, from the least to the greatest byte offset that still has an
\* unconfirmed CheckId; the offsets between the two are read whether or not
\* they have one.
C8_OneSpanningRead ==
    polls_on_same_state >= 1 =>
        /\ \A byte_offset \in DOMAIN remaining_purchases :
               \A bit_mask \in DOMAIN remaining_purchases[byte_offset] :
                   remaining_purchases[byte_offset][bit_mask]
                       \notin checked_locations
        /\ IF DOMAIN remaining_purchases = {}
           THEN shop_reads = <<>>
           ELSE /\ Len(shop_reads) = 1
                /\ ReadOffsets(shop_reads[1]) =
                       Min(DOMAIN remaining_purchases)
                           .. Max(DOMAIN remaining_purchases)

\* A poll has read three bytes, the middle one with no unconfirmed CheckId.
C8_Witness ==
    /\ polls_on_same_state >= 1
    /\ shop_reads = <<(<<0, 3>>)>>
    /\ 1 \notin DOMAIN remaining_purchases
    /\ PurchaseLocationId(9) \in checked_locations

-----------------------------------------------------------------------------
(***************************************************************************)
(* Properties of the Minikit checks.                                       *)
(***************************************************************************)

RemainingMinikitIds ==
    UNION {{check[2] : check \in
               Range(remaining_minikit_checks_by_shortname[shortname])} :
           shortname \in DOMAIN remaining_minikit_checks_by_shortname}

\* The counter of the chapter, in the level or in the save data, is at
\* least n.
MinikitCounterAtLeast(area, n) ==
    \/ current_area_id = AreaId(area) /\ current_area_minikit_count >= n
    \/ save_data[area][MINIKIT_COUNT_OFFSET] >= n

\* C9 as stated: the poll that confirms a Minikit check removes its CheckId
\* from the remaining set for good, so that it is not emitted again.
C9_RemovedWhenConfirmed ==
    polls_on_same_state >= 1 =>
        \A area \in ALL_CHAPTER_AREAS_SET, n \in 1..NumMinikitChecks :
            MinikitLocationId(area, n) \in Range(new_location_checks)
                => MinikitLocationId(area, n) \notin RemainingMinikitIds

\* C9, amended: a poll emits the Minikit check with count n of a chapter
\* exactly when the Fact Store does not hold it and the chapter's counter
\* is at least n, on the first such poll and on every one after it; the
\* CheckId leaves the remaining set only once the Fact Store holds it, and
\* then for good.
C9_EmittedUntilAcknowledged ==
    /\ [](\A area \in ALL_CHAPTER_AREAS_SET, n \in 1..NumMinikitChecks :
            LET location_id == MinikitLocationId(area, n) IN
            /\ polls_on_same_state >= 1 =>
                   (location_id \in Range(new_location_checks)
                       <=> /\ location_id \notin checked_locations
                           /\ MinikitCounterAtLeast(area, n))
            /\ location_id \notin RemainingMinikitIds
                   => location_id \in checked_locations)
    /\ [][RemainingMinikitIds' \subseteq RemainingMinikitIds]_vars

\* The second poll in a row has emitted the last Minikit check of 1-1 again
\* and it remains; the first check, acknowledged, has left the remaining set.
C9_Witness ==
    /\ polls_on_same_state = 2
    /\ MinikitLocationId("1-1", NumMinikitChecks) \in Range(new_location_checks)
    /\ MinikitLocationId("1-1", NumMinikitChecks) \in RemainingMinikitIds
    /\ MinikitLocationId("1-1", 1) \in checked_locations
    /\ MinikitLocationId("1-1", 1) \notin RemainingMinikitIds

-----------------------------------------------------------------------------
(***************************************************************************)
(* Properties of the text display's tick.                                  *)
(***************************************************************************)

\* The step is a tick of the display.
IsTick == last_tick' \in {"waiting", "idle", "cleaned", "displayed", "unsafe"}

\* The predicate of the claim on the five bytes, and the delay.
GameInPlay ==
    /\ game_flags.paused_or_status_when_0 # 0
    /\ game_flags.tabbed_out_when_1 # 1
    /\ game_flags.opened_menu_depth = 0
    /\ game_flags.is_playing_when_0 = 0
    /\ game_flags.game_state \in {1, 2}

DelayElapsed == clock >= next_allowed_message_time

\* What a tick that does nothing leaves alone.
TickLeavesDisplayAlone ==
    UNCHANGED <<message_queue, scratch_memory, memory_dirty,
                next_allowed_message_time, next_allowed_clean_time,
                double_score_zone_timer>>

DequeuesAtMostOne ==
    \/ message_queue' = message_queue
    \/ message_queue # <<>> /\ message_queue' = Tail(message_queue)

\* C10 as stated: a tick dequeues at most one message, only when the delay
\* has elapsed and the game is in play; a tick on which either fails leaves
\* the queue, the scratch buffer, the dirty flag and the timers unchanged.
C10_TickLeavesAloneUnlessSafe ==
    [][IsTick =>
          /\ DequeuesAtMostOne
          /\ message_queue' # message_queue => DelayElapsed /\ GameInPlay
          /\ ~(DelayElapsed /\ GameInPlay) => TickLeavesDisplayAlone]_vars

\* C10, amended: a tick dequeues at most one message, only when the delay
\* has elapsed and the game is in play; a tick before the delay has
\* elapsed, or with a message queued and the game not in play, leaves the
\* queue, the scratch buffer, the dirty flag and the timers unchanged.  (A
\* tick with an empty queue restores the vanilla string whatever the game
\* is doing.)
C10_TickDequeuesOnlyWhenSafe ==
    [][IsTick =>
          /\ DequeuesAtMostOne
          /\ message_queue' # message_queue => DelayElapsed /\ GameInPlay
          /\ (~DelayElapsed \/ (message_queue # <<>> /\ ~GameInPlay))
                 => TickLeavesDisplayAlone]_vars

\* A tick has restored the vanilla string while the game is not in play.
C10_Witness ==
    /\ last_tick = "cleaned"
    /\ ~GameInPlay
    /\ ~memory_dirty
    /\ ScratchRegion(Len(vanilla_bytes)) = vanilla_bytes

\* C11: with a message queued and the delay between messages elapsed, a tick
\* displays the head message if and only if the game is in play on that
\* tick: a tick that finds the game not in play leaves the queue and the
\* scratch buffer alone, and the first tick that finds it in play (the sixth
\* after five that did not) dequeues the message and writes it.
C11_DisplayedOnFirstSafeTick ==
    [][(IsTick /\ message_queue # <<>> /\ DelayElapsed) =>
          IF GameInPlay
          THEN /\ last_tick' = "displayed"
               /\ message_queue' = Tail(message_queue)
               /\ CString(scratch_memory') = EncodedMessage(Head(message_queue))
               /\ memory_dirty'
               /\ double_score_zone_timer' = DISPLAY_DURATION_S
               /\ head_ticks'.unsafe = UnsafeTicksBefore
          ELSE /\ last_tick' = "unsafe"
               /\ TickLeavesDisplayAlone]_vars

\* The message has been displayed on the sixth tick, the five before having
\* found it queued, the delay elapsed and the game not in play.
C11_Witness ==
    /\ last_tick = "displayed"
    /\ head_ticks = [unsafe |-> 5, displayed |-> TRUE]
    /\ DoubleScoreZoneText \in {EncodedMessage(m) : m \in Messages}

-----------------------------------------------------------------------------
(***************************************************************************)
(* Properties of the free-play completion checker.                         *)
(***************************************************************************)

\* The three conditions on the game's memory under which a poll records a
\* completion.
OnCompletionScreenInFreePlay ==
    /\ current_level_id \in {StatusLevelId(a) : a \in ALL_CHAPTER_AREAS_SET}
    /\ current_game_mode = CURRENT_GAME_MODE_FREE_PLAY
    /\ status_level_type = STATUS_LEVEL_TYPE_LEVEL_COMPLETION

\* C12: a poll of the free-play checker records a completion only if the
\* current level is a chapter's status level, the game mode is Free Play and
\* the status level type is that of a completion; a poll on which one of the
\* three fails adds nothing to completed_free_play or sent_locations and
\* writes nothing to the game's memory.
C12_RecordsOnlyOnCompletionScreen ==
    [][CheckCompletion =>
          /\ (\/ completed_free_play' # completed_free_play
              \/ ~(sent_locations' \subseteq sent_locations)
              \/ save_data' # save_data) => OnCompletionScreenInFreePlay
          /\ ~OnCompletionScreenInFreePlay =>
                 /\ completed_free_play' = completed_free_play
                 /\ sent_locations' \subseteq sent_locations
                 /\ save_data' = save_data]_vars

\* A poll has seen the status level of 1-1 in Free Play after 'Save and
\* Exit', and has recorded nothing.
C12_Witness ==
    /\ polls_on_same_state >= 1
    /\ current_level_id = StatusLevelId("1-1")
    /\ current_game_mode = CURRENT_GAME_MODE_FREE_PLAY
    /\ status_level_type = STATUS_LEVEL_TYPE_SAVE_AND_EXIT
    /\ "1-1" \notin completed_free_play
    /\ CompletionLocationId("1-1") \notin sent_locations
    /\ save_data["1-1"][UNLOCKED_OFFSET] # FreePlayCompletedByte

\* C13 as stated: after every poll that finds a chapter's status level, the
\* Free Play mode and the status level type of a completion, the chapter is
\* in completed_free_play, its save record holds the byte of a chapter
\* completed in Free Play (so that a later read of the save data finds it),
\* and its Completion CheckId is in sent_locations, or acknowledged.
C13_RecordedOnEveryCompletionPoll ==
    (polls_on_same_state >= 1 /\ OnCompletionScreenInFreePlay) =>
        LET area == STATUS_LEVEL_ID_TO_AREA[current_level_id] IN
        /\ area \in completed_free_play
        /\ save_data[area][UNLOCKED_OFFSET] = FreePlayCompletedByte
        /\ CompletionLocationId(area) \in sent_locations \cup checked_locations

\* C14 as stated: sent_locations only accumulates; no step of a checker
\* removes a CheckId from it, acknowledged or not.
C14_SentLocationsAccumulate ==
    [][connection' = connection => sent_locations \subseteq sent_locations']_vars

\* C14, amended: sent_locations holds the confirmed CheckIds the Fact Store
\* has not acknowledged.  A step of a checker removes a CheckId from it only
\* if the Fact Store holds the CheckId, and after a poll it contains no
\* CheckId the Fact Store holds.
C14_PrunedWhenAcknowledged ==
    /\ [][connection' = connection =>
              (sent_locations \ sent_locations') \subseteq checked_locations]_vars
    /\ [](polls_on_same_state >= 1 => sent_locations \cap checked_locations = {})

\* A poll has removed the acknowledged Completion CheckId of 1-1, a chapter
\* the checker holds as completed, and kept that of 2-1, not acknowledged.
C14_Witness ==
    /\ polls_on_same_state >= 1
    /\ {"1-1", "2-1"} \subseteq completed_free_play
    /\ CompletionLocationId("1-1") \in checked_locations
    /\ sent_locations = {CompletionLocationId("2-1")}

\* C15: a Completion CheckId the checker holds as confirmed, recorded by a
\* poll or read from the save data by initialize, stays in sent_locations
\* until the Fact Store holds it, and every poll appends the whole of
\* sent_locations to new_location_checks; under continued polling a
\* confirmed CheckId is therefore reported (or found acknowledged), also
\* when the checker is recreated before it could report it.
C15_ResentUntilAcknowledged ==
    /\ [][connection' = connection =>
              \A ap_id \in sent_locations :
                  ap_id \notin checked_locations' => ap_id \in sent_locations']_vars
    /\ [][CheckCompletion =>
              Range(new_location_checks') = sent_locations']_vars
    /\ \A ap_id \in CompletionLocations :
           (ap_id \in sent_locations)
               ~> (ap_id \in Range(new_location_checks)
                      \/ ap_id \in checked_locations)

\* The second checker has read from the save data the completion of 2-1
\* that the first one recorded, and a poll of it has reported the CheckId,
\* which the Fact Store does not hold.
C15_Witness ==
    /\ connection = 2
    /\ polls_on_same_state >= 1
    /\ "2-1" \in previous_completed_free_play
    /\ CompletionLocationId("2-1") \in Range(new_location_checks)
    /\ CompletionLocationId("2-1") \notin checked_locations
    /\ checked_locations # {}

-----------------------------------------------------------------------------
(***************************************************************************)
(* Properties of AcquiredGeneric's mirror.                                 *)
(***************************************************************************)

\* C16 as stated: a tick whose pattern (the byte of the bonus doors and the
\* goal text) equals the pattern written on the tick before issues no write.
C16_NoWriteWhenPatternUnchanged ==
    ticks_on_same_facts >= 2 => mirror_writes = <<>>

\* C16, amended: every tick issues the same two writes, the byte of the
\* bonus doors and then the goal text, whether or not the pattern changed;
\* the writes are idempotent in their value: a tick on the facts of the tick
\* before writes the bytes that tick wrote and leaves the memory as it was.
C16_WritesSamePatternEveryTick ==
    [][UpdateGenericGameState =>
          /\ Len(mirror_writes') = 2
          /\ mirror_writes'[1] = [address |-> BONUSES_BASE_ADDRESS,
                                  bytes |-> <<bonuses_byte'>>]
          /\ mirror_writes'[2] = [address |-> CUSTOM_CHARACTER2_NAME_OFFSET,
                                  bytes |-> custom_character2_name']
          /\ ticks_on_same_facts >= 1 =>
                 /\ mirror_writes' = mirror_writes
                 /\ bonuses_byte' = bonuses_byte
                 /\ custom_character2_name' = custom_character2_name]_vars

\* The second tick on the same facts has written again the byte that opens
\* the first and the fourth bonus door, and the goal text.
C16_Witness ==
    /\ ticks_on_same_facts = 2
    /\ Len(mirror_writes) = 2
    /\ mirror_writes[1].bytes = <<9>>
    /\ bonuses_byte = 9
    /\ mirror_writes[2].bytes = custom_character2_name

\* The number a list of ASCII digits denotes.
RECURSIVE DecimalValue(_)
DecimalValue(digits) ==
    IF digits = <<>> THEN 0
    ELSE 10 * DecimalValue(SubSeq(digits, 1, Len(digits) - 1))
             + (digits[Len(digits)] - 48)

\* "270 GOAL": the goal of 54 * 5 Minikits and the word that follows it.
GoalSuffix == <<50, 55, 48, 32, 71, 79, 65, 76>>

\* C17: the goal text a tick writes is the number of Minikits received (5
\* for each item) in decimal digits, padded with zeros to the three digits of
\* the goal, then "/", the goal and " GOAL", cut to at most 15 bytes and
\* followed by one null byte: at most 16 bytes, the last one 0 and no other.
C17_GoalTextFitsField ==
    ticks_on_same_facts >= 1 =>
        LET text == mirror_writes[2].bytes
            body == SubSeq(text, 1, Len(text) - 1)
            slash == CHOOSE i \in 1..Len(body) :
                         body[i] = 47 /\ \A j \in 1..(i - 1) : body[j] # 47
            current == SubSeq(body, 1, slash - 1)
            rest == SubSeq(body, slash + 1, Len(body))
        IN /\ Len(text) <= GoalTextUsableBytes + 1
           /\ text[Len(text)] = 0
           /\ \A i \in 1..Len(body) : body[i] # 0
           /\ \E i \in 1..Len(body) : body[i] = 47
           /\ \A i \in 1..Len(current) : current[i] \in 48..57
           /\ DecimalValue(current) = acquired_minikit_count * 5
           /\ Len(current) >= 3
           /\ Len(current) > 3 => current[1] # 48
           /\ Len(body) = Min({GoalTextUsableBytes,
                               Len(current) + 1 + Len(GoalSuffix)})
           /\ rest = SubSeq(GoalSuffix, 1, Len(rest))
           /\ custom_character2_name = text

\* A tick has written "1000000/270 GOA" and the null byte: the text of
\* 200000 items, cut to the 15 usable bytes.
C17_Witness ==
    /\ ticks_on_same_facts >= 1
    /\ acquired_minikit_count = 200000
    /\ Len(custom_character2_name) = GoalTextUsableBytes + 1
    /\ custom_character2_name[GoalTextUsableBytes] = 65
    /\ custom_character2_name[1] = 49

-----------------------------------------------------------------------------
(***************************************************************************)
(* Properties of the detectors' remaining sets.                            *)
(***************************************************************************)

\* The CheckIds a purchases checker still holds.
RemainingPurchaseIds ==
    UNION {{remaining_purchases[byte_offset][bit_mask] :
               bit_mask \in DOMAIN remaining_purchases[byte_offset]} :
           byte_offset \in DOMAIN remaining_purchases}

\* C19: the remaining sets of the detectors only shrink.  After any step of
\* an instance (a poll included) the CheckIds in remaining_purchases, the
\* chapters in remaining_true_jedi_check_shortnames and the CheckIds in
\* remaining_minikit_checks_by_shortname are among those held before it.
C19_RemainingSetsShrink ==
    [][/\ RemainingPurchaseIds' \subseteq RemainingPurchaseIds
       /\ remaining_true_jedi_check_shortnames'
              \subseteq remaining_true_jedi_check_shortnames
       /\ RemainingMinikitIds' \subseteq RemainingMinikitIds
       /\ DOMAIN remaining_minikit_checks_by_shortname'
              \subseteq DOMAIN remaining_minikit_checks_by_shortname
       /\ DOMAIN remaining_purchases' \subseteq DOMAIN remaining_purchases]_vars

\* Polls have removed the True Jedi check of 1-1 and, one acknowledgement
\* after the other, all its Minikit checks; the other chapters remain.
C19_Witness ==
    /\ detector = "true jedi and minikits"
    /\ remaining_true_jedi_check_shortnames = ALL_GAME_AREA_SHORTNAMES \ {"1-1"}
    /\ DOMAIN remaining_minikit_checks_by_shortname
           = ALL_GAME_AREA_SHORTNAMES \ {"1-1"}
    /\ polls_on_same_state >= 1

-----------------------------------------------------------------------------
(***************************************************************************)
(* Properties of the two paths of the True Jedi and Minikit checker.       *)
(***************************************************************************)

\* How many times a list holds x.
Occurrences(list, x) == Cardinality({i \in DOMAIN list : list[i] = x})

\* C20 as stated: when the live path and the save-data path both find the
\* condition of a CheckId, the one that finds it second appends nothing:
\* the list of a poll holds no CheckId twice.
C20_SecondPathAddsNothing ==
    polls_on_same_state >= 1 =>
        \A ap_id \in Range(new_location_checks) :
            Occurrences(new_location_checks, ap_id) = 1

\* C20, amended: neither path of the Minikit checks removes what it appends,
\* so a poll appends an unacknowledged Minikit CheckId once for each path
\* that finds its counter reached: twice when the chapter's in-level counter
\* and its saved counter both have.  A True Jedi CheckId is appended at
\* most once by a poll, the live path removing the chapter before the
\* save-data path runs.  An acknowledged CheckId is not appended.
C20_AppendedOncePerObservingPath ==
    polls_on_same_state >= 1 =>
        /\ \A area \in ALL_CHAPTER_AREAS_SET, n \in 1..NumMinikitChecks :
               Occurrences(new_location_checks, MinikitLocationId(area, n)) =
                   IF MinikitLocationId(area, n) \in checked_locations THEN 0
                   ELSE (IF /\ current_area_id = AreaId(area)
                            /\ current_area_minikit_count >= n
                         THEN 1 ELSE 0)
                        + (IF save_data[area][MINIKIT_COUNT_OFFSET] >= n
                           THEN 1 ELSE 0)
        /\ \A area \in ALL_CHAPTER_AREAS_SET :
               Occurrences(new_location_checks, TrueJediLocationId(area)) <=
                   IF TrueJediLocationId(area) \in checked_locations
                   THEN 0 ELSE 1

\* One poll has appended the CheckId of the first Minikit of 1-1 twice, the
\* in-level counter and the saved counter both having reached 1.
C20_Witness ==
    /\ polls_on_same_state >= 1
    /\ current_area_id = AreaId("1-1")
    /\ current_area_minikit_count >= 1
    /\ save_data["1-1"][MINIKIT_COUNT_OFFSET] >= 1
    /\ Occurrences(new_location_checks, MinikitLocationId("1-1", 1)) = 2

\* C21 as stated: a poll appends the True Jedi CheckId of every chapter it
\* still holds, unacknowledged, whose save record has one of the two True
\* Jedi bytes other than zero; either byte alone suffices.
C21_EitherTrueJediByteSuffices ==
    polls_on_same_state >= 1 =>
        \A area \in remaining_true_jedi_check_shortnames :
            (/\ TrueJediLocationId(area) \notin checked_locations
             /\ \/ save_data[area][TRUE_JEDI_COMPLETE_OFFSET] # 0
                \/ save_data[area][TRUE_JEDI_COMPLETE_2_OFFSET] # 0)
                => TrueJediLocationId(area) \in Range(new_location_checks)

\* _initialize returns early or takes its else branch: the anchor pattern or
\* the pointer pattern is not found, or the name before the anchor is not
\* that of a known language.
LocatingFails ==
    \/ ~game_image.anchor_found
    \/ game_image.rebel_trooper_name \notin DOMAIN REBEL_TROOPER_NAME_TO_LANGUAGE
    \/ ~game_image.pointer_array_found

\* C22: when locating the string fails, _initialize is called exactly once
\* (by the first tick, never again), messages stay disabled, every
\* queue_message leaves the queue empty, and no tick and no unhook writes
\* the message memory, the game's pointer or the timer.
C22_DisabledWhenLocatingFails ==
    [][LocatingFails =>
         /\ initialize_calls' = (IF initialized' THEN 1 ELSE 0)
         /\ ~messages_enabled'
         /\ message_queue' = <<>>
         /\ ~memory_dirty'
         /\ last_tick' \notin {"cleaned", "displayed"}
         /\ UNCHANGED <<scratch_memory, double_score_zone_pointer,
                        double_score_zone_timer,
                        double_score_zone_string_address, vanilla_bytes>>]_vars

\* A display that failed to locate the string has ticked, was unhooked, and
\* was then given a message.
C22_Witness ==
    /\ LocatingFails
    /\ initialized
    /\ ~hooked
    /\ last_tick = "none"
    /\ message_queue = <<>>

\* The last item was received by a handler whose static tables have no
\* entry for it: no reverse-index entry, no stud value, no branch.
UnconfiguredReceipt ==
    \/ /\ last_receipt'.handler = "on_character_or_episode_unlocked"
       /\ last_receipt'.item \notin DOMAIN character_to_dependent_game_chapters
    \/ /\ last_receipt'.handler = "give_studs"
       /\ last_receipt'.item \notin DOMAIN STUDS_AP_ID_TO_VALUE
    \/ /\ last_receipt'.handler = "receive_generic"
       /\ last_receipt'.item \notin
              {ItemCode("5 Minikits"), ItemCode("Progressive Bonus Level"),
               ItemCode("Progressive Score Multiplier")}
                  \cup DOMAIN EPISODE_UNLOCKS

\* C23: the receipt of an id without an entry (by
\* on_character_or_episode_unlocked, give_studs or receive_generic) leaves
\* the engine's state and the game memory as they were and raises nothing.
C23_UnconfiguredReceiptIgnored ==
    [][UnconfiguredReceipt =>
         /\ error' = "none"
         /\ UNCHANGED <<genericVars, studVars,
                        character_to_dependent_game_chapters,
                        remaining_chapter_item_requirements,
                        unlocked_chapters_per_episode, unlocked_episodes,
                        error, mirrorVars, save_data, freePlayVars,
                        freePlayMemory, connectionVars, checked_locations,
                        pollVars, detector, shopVars, minikitVars,
                        minikitMemory, displayVars, displayMemory>>]_vars

\* Each of the three handlers has been given such an id: the manager and
\* give_studs earlier, receive_generic last.
C23_Witness ==
    /\ last_receipt = [handler |-> "receive_generic",
                       item |-> ItemCode("Restart Level Trap")]
    /\ ItemCode("Restart Level Trap") \in delivered
    /\ ItemCode("Anakin's Speeder") \in delivered
    /\ stud_count = 8
    /\ progressive_score_count = 3

HeldCheckIds ==
    RemainingPurchaseIds \cup RemainingMinikitIds \cup sent_locations
        \cup {TrueJediLocationId(shortname) :
                  shortname \in remaining_true_jedi_check_shortnames}

\* C25 as stated: a poll one of whose memory calls raises issues no call
\* after it, and every unacknowledged CheckId the detector held before the
\* poll is still held after it.
C25_AbandonedPollLosesNothing ==
    [][NextAbandoned =>
         /\ \/ poll_calls' = <<"read_bytes">>
            \/ \E n \in 1..Len(CheckCompletionCalls) :
                   poll_calls' = SubSeq(CheckCompletionCalls, 1, n)
            \/ \E n \in 1..Len(TrueJediAndMinikitCalls) :
                   poll_calls' = SubSeq(TrueJediAndMinikitCalls, 1, n)
         /\ (HeldCheckIds \ checked_locations) \subseteq HeldCheckIds']_vars

\* C26: the queue is first in, first out, and a message is written once.
\* A tick that displays writes the oldest message of the queue and removes
\* it in the same step; queue_message adds at the other end; no other step
\* changes the queue but the unhook, which empties it, and no other step
\* writes anything but the vanilla string into the message memory.
C26_FifoConsumedOnce ==
    [][IF last_tick' = "displayed"
       THEN /\ message_queue # <<>>
            /\ message_queue' = Tail(message_queue)
            /\ scratch_memory' =
                   WriteBytes(scratch_memory,
                              EncodedMessage(Head(message_queue)))
       ELSE /\ \/ message_queue' = message_queue
               \/ /\ last_tick' = "none"
                  /\ \E message \in Messages :
                         message_queue' = Append(message_queue, message)
               \/ /\ last_tick' = "unhooked"
                  /\ message_queue' = <<>>
            /\ \/ scratch_memory' = scratch_memory
               \/ scratch_memory' =
                      WriteBytes(scratch_memory, vanilla_bytes')]_vars

\* The older of two queued messages has just been displayed; the one queued
\* after it waits.
C26_Witness ==
    /\ last_tick = "displayed"
    /\ CString(scratch_memory) = EncodedMessage(<<72>>)
    /\ message_queue = <<(<<233, 33>>)>>

\* The bit of a one-bit mask is set in a byte.
HasBit(byte, bit_mask) == (byte \div bit_mask) % 2 = 1

\* C27: after a poll of the purchases checker, the ids in
\* new_location_checks are exactly those of the remaining, sendable
\* (offset, mask) entries whose bit is set in the byte of the shop at that
\* offset, each once.
C27_EmittedIffBitSet ==
    polls_on_same_state >= 1 =>
        /\ Range(new_location_checks) =
               {id \in PurchaseLocations :
                   \E byte_offset \in DOMAIN remaining_purchases :
                       \E bit_mask \in DOMAIN remaining_purchases[byte_offset] :
                           /\ remaining_purchases[byte_offset][bit_mask] = id
                           /\ IsLocationSendable(id)
                           /\ HasBit(shop_bytes[byte_offset], bit_mask)}
        /\ Len(new_location_checks) = Cardinality(Range(new_location_checks))

\* Offset 0 holds the masks 1 and 2, the byte there is 1, and the poll has
\* emitted the id of mask 1 alone.
C27_Witness ==
    /\ polls_on_same_state >= 1
    /\ 0 \in DOMAIN remaining_purchases
    /\ DOMAIN remaining_purchases[0] = {1, 2}
    /\ shop_bytes[0] = 1
    /\ new_location_checks = <<remaining_purchases[0][1]>>

\* C28: after a poll of any of the three detectors, no id in
\* new_location_checks is acknowledged, and no acknowledged id is left in
\* the remaining purchases, the remaining True Jedi or the remaining
\* Minikit checks.
C28_NoAcknowledgedIdEmitted ==
    polls_on_same_state >= 1 =>
        /\ Range(new_location_checks) \cap checked_locations = {}
        /\ detector = "purchases" =>
               RemainingPurchaseIds \cap checked_locations = {}
        /\ detector = "true jedi and minikits" =>
               /\ RemainingMinikitIds \cap checked_locations = {}
               /\ \A shortname \in remaining_true_jedi_check_shortnames :
                      TrueJediLocationId(shortname) \notin checked_locations

\* A purchase that is acknowledged has its bit set in the shop, and the poll
\* emitted another purchase and not that one.
C28_Witness ==
    /\ detector = "purchases"
    /\ polls_on_same_state >= 1
    /\ PurchaseLocationId(0) \in checked_locations
    /\ HasBit(shop_bytes[0], 1)
    /\ new_location_checks = <<PurchaseLocationId(1)>>

\* C29: the first memory call of every poll of the free-play checker is the
\* read of the current level id; the game mode and the kind of the status
\* screen are read, and the record written, only after it and only when the
\* level id is the status level id of a chapter.
C29_LevelIdReadFirst ==
    (detector = "free play" /\ poll_calls # <<>>) =>
        /\ poll_calls[1] = "read_current_level_id"
        /\ \A i \in DOMAIN poll_calls :
               poll_calls[i] \in {"read_current_game_mode",
                                  "read_status_level_type", "write_byte"}
                   => /\ i > 1
                      /\ current_level_id \in
                             {StatusLevelId(area) : area \in ALL_CHAPTER_AREAS_SET}

\* The screen's kind is that of a completion and the mode is Free Play, but
\* the level is not a status level: the poll has read the level id alone.
C29_Witness ==
    /\ detector = "free play"
    /\ poll_calls = <<"read_current_level_id">>
    /\ current_level_id = OtherLevelId
    /\ IsStatusLevelCompletion
    /\ IsInFreePlay

\* C30: a tick that finds the queue empty writes the vanilla bytes if and
\* only if memory_dirty is set and the time is past next_allowed_clean_time;
\* the write clears memory_dirty; otherwise the tick leaves the memory and
\* the flag alone; and no tick writes them while memory_dirty is unset.
C30_RestoredOnlyWhenDirty ==
    [][IsTick =>
         /\ last_tick' = "cleaned" => memory_dirty /\ message_queue = <<>>
         /\ message_queue = <<>> =>
                /\ (last_tick' = "cleaned")
                       <=> (memory_dirty /\ clock > next_allowed_clean_time)
                /\ IF last_tick' = "cleaned"
                   THEN /\ scratch_memory' =
                               WriteBytes(scratch_memory, vanilla_bytes)
                        /\ ~memory_dirty'
                   ELSE UNCHANGED <<scratch_memory, memory_dirty>>]_vars

\* The message has been shown, its time has passed, and a tick has written
\* the vanilla bytes over it.
C30_Witness ==
    /\ last_tick = "cleaned"
    /\ ~memory_dirty
    /\ message_queue = <<>>
    /\ CString(scratch_memory) = vanilla_bytes
    /\ clock > next_allowed_clean_time


\* C31: on an Active display whose game stays hooked, with the game safe to
\* interrupt again and again, the message at the head of the queue is
\* eventually the text the game reads, and the second message eventually the
\* head; with an empty queue and dirty memory, the vanilla bytes are
\* eventually written back unless another message is queued first; and
\* memory_dirty, once false, becomes true only by the display of a message.
C31_Displayed(m) ==
    /\ last_tick = "displayed"
    /\ DoubleScoreZoneText = CString(EncodedMessage(m))

C31_QueuedMessagesDisplayedThenRestored ==
    /\ ([]<>SafeToInterrupt) =>
          /\ \A m \in Messages :
                (message_queue # <<>> /\ Head(message_queue) = m)
                    ~> (~hooked \/ C31_Displayed(m))
          /\ \A m \in Messages :
                (Len(message_queue) >= 2 /\ message_queue[2] = m)
                    ~> (~hooked \/ (message_queue # <<>>
                                     /\ Head(message_queue) = m))
    /\ (message_queue = <<>> /\ memory_dirty)
          ~> \/ message_queue # <<>>
             \/ /\ ~memory_dirty
                /\ CString(scratch_memory) = CString(vanilla_bytes)
    /\ [][(~memory_dirty /\ memory_dirty') => last_tick' = "displayed"]_vars

\* C31 witness: the second of two queued messages is on display after the
\* clock has reached MaxTime, the queue is empty and the memory is dirty.
C31_Witness ==
    /\ hooked
    /\ messages_enabled
    /\ clock = MaxTime
    /\ message_queue = <<>>
    /\ memory_dirty
    /\ head_ticks.unsafe > 0
    /\ \E m \in Messages : C31_Displayed(m)


\* The chapters the mirror completes in Story mode for the time being: all
\* of them with six episodes unlocked and an 'all episodes' character
\* selected, else the unlocked chapters of the episode room the player
\* stands in, else none.
C32_TemporarySet ==
    IF Cardinality(unlocked_episodes) = 6 /\ all_episodes_character_selected
    THEN ALL_CHAPTER_AREAS_SET
    ELSE {area \in ALL_CHAPTER_AREAS_SET :
             /\ cantina_room \in 1..6
             /\ Episode(area) = cantina_room
             /\ area \in unlocked_chapters_per_episode[cantina_room]}

C32_Unlocked(area) == \E e \in 1..6 : area \in unlocked_chapters_per_episode[e]

C33_LiveCheckOpen(area) ==
    /\ current_area_id = AreaId(area)
    /\ area \in remaining_true_jedi_check_shortnames
    /\ TrueJediLocationId(area) \notin checked_locations

C34_AssertionsNeverFail ==
    /\ error = "none"
    /\ \A fact \in DOMAIN character_to_dependent_game_chapters :
           \A i \in DOMAIN character_to_dependent_game_chapters[fact] :
               LET area == character_to_dependent_game_chapters[fact][i] IN
               /\ area \in DOMAIN remaining_chapter_item_requirements
               /\ remaining_chapter_item_requirements[area] # {}
               /\ fact \in remaining_chapter_item_requirements[area]

\* C34 witness: after the delivery of "Episode 2 Unlock", which two chapters
\* share, of an Episode Unlock that no modelled chapter requires, and of a
\* duplicate, the reverse index still lists a chapter for a fact.
C34_Witness ==
    /\ ItemCode("Episode 2 Unlock") \in delivered
    /\ ItemCode("Episode 3 Unlock") \in delivered
    /\ last_delivery.duplicate
    /\ ItemCode("Episode 2 Unlock")
           \notin DOMAIN character_to_dependent_game_chapters
    /\ ItemCode("Republic Gunship")
           \in DOMAIN character_to_dependent_game_chapters
    /\ IsUnlocked("2-1")


C36_CleanDisplayReadsVanilla ==
    (messages_enabled /\ ~memory_dirty) => DoubleScoreZoneText = vanilla_bytes


\* The chapter's prerequisites are outstanding and the checker does not hold
\* it as completed in Free Play.
C37_LockedAndNeverCompleted(area) ==
    /\ area \in DOMAIN remaining_chapter_item_requirements
    /\ ~IsUnlocked(area)
    /\ area \notin completed_free_play

\* C37 as stated: the mirror writes bit 0 of a chapter's first byte as 1
\* only if the chapter is unlocked or completed in Free Play; a chapter that
\* is locked and was never completed is always written 00 00.
C37_UnlockedBitOnlyIfUnlockedOrCompleted ==
    [][UpdateChapterGameState =>
          \A area \in ALL_CHAPTER_AREAS_SET :
              /\ HasBit(save_data'[area][UNLOCKED_OFFSET], 1)
                     => (IsUnlocked(area) \/ area \in completed_free_play)
              /\ C37_LockedAndNeverCompleted(area)
                     => /\ save_data'[area][UNLOCKED_OFFSET] = 0
                        /\ save_data'[area][STORY_COMPLETE_OFFSET] = 0]_vars

\* Every Story mode is temporarily completed.
C37_AllEpisodesSelected ==
    Cardinality(unlocked_episodes) = 6 /\ all_episodes_character_selected

\* C37, amended: the mirror writes bit 0 of a chapter's first byte as 1 only
\* if the chapter is unlocked, or completed in Free Play, or all six
\* episodes are unlocked and an 'all episodes' character is selected in the
\* shop; a chapter that is locked and was never completed is written 01 01
\* in that last case and 00 00 otherwise.
C37_UnlockedBitUnlessAllEpisodesSelected ==
    [][UpdateChapterGameState =>
          \A area \in ALL_CHAPTER_AREAS_SET :
              /\ HasBit(save_data'[area][UNLOCKED_OFFSET], 1)
                     => \/ IsUnlocked(area)
                        \/ area \in completed_free_play
                        \/ C37_AllEpisodesSelected
              /\ C37_LockedAndNeverCompleted(area)
                     => <<save_data'[area][UNLOCKED_OFFSET],
                          save_data'[area][STORY_COMPLETE_OFFSET]>> =
                            IF C37_AllEpisodesSelected
                            THEN <<1, 1>> ELSE <<0, 0>>]_vars

\* C37 witness: 2-5, its character outstanding and never completed, has been
\* written 01 01 while 2-1, in the same state, is unlocked.
C37_Witness ==
    /\ C37_AllEpisodesSelected
    /\ C37_LockedAndNeverCompleted("2-5")
    /\ ItemCode("Republic Gunship")
           \in remaining_chapter_item_requirements["2-5"]
    /\ IsUnlocked("2-1")
    /\ save_data["2-5"][UNLOCKED_OFFSET] = 1
    /\ save_data["2-5"][STORY_COMPLETE_OFFSET] = 1


C39_DisplayInvariants ==
    /\ [](/\ message_queue # <<>> => messages_enabled
          /\ memory_dirty => messages_enabled
          /\ next_allowed_clean_time >= next_allowed_message_time)
    /\ [][(~messages_enabled /\ ~messages_enabled')
              => message_queue' = message_queue]_vars

\* C39 witness: a message has been displayed, which set the two times, and
\* another is queued while the memory is dirty.
C39_Witness ==
    /\ messages_enabled
    /\ memory_dirty
    /\ message_queue # <<>>
    /\ next_allowed_message_time > 0
    /\ next_allowed_clean_time > next_allowed_message_time


\* The characters bonus level i requires; the fifth and sixth require none.
C40_Required(i) ==
    CASE i = 1 -> {CharacterIndex("Anakin's Pod")}
      [] i = 2 -> {CharacterIndex("Naboo Starfighter")}
      [] i = 3 -> {CharacterIndex("Republic Gunship")}
      [] i = 4 -> {CharacterIndex("Darth Vader"),
                   CharacterIndex("Stormtrooper"), CharacterIndex("C-3PO")}
      [] OTHER -> {}

\* C40: the byte a tick writes for the bonus doors has bit i-1 set, for i in
\* 1..6, if and only if i <= progressive_bonus_count and every character
\* bonus level i requires is unlocked; its bits 6 and 7 are 0; and no tick
\* clears a bit that the tick before had set, the received items only
\* growing.
C40_BonusByteBits ==
    /\ [](ticks_on_same_facts >= 1 =>
             /\ \A i \in 1..6 :
                    HasBit(bonuses_byte, ShiftLeft(1, i - 1))
                        <=> /\ i <= progressive_bonus_count
                            /\ C40_Required(i) \subseteq unlocked_characters
             /\ ~HasBit(bonuses_byte, 64)
             /\ ~HasBit(bonuses_byte, 128)
             /\ bonuses_byte < 256)
    /\ [][\A i \in 1..8 :
              HasBit(bonuses_byte, ShiftLeft(1, i - 1))
                  => HasBit(bonuses_byte', ShiftLeft(1, i - 1))]_vars

\* C40 witness: with seven "Progressive Bonus Level" items and, of the
\* required characters, Anakin's Pod and Darth Vader only, a tick has
\* written the bits of the first, fifth and sixth doors.
C40_Witness ==
    /\ ticks_on_same_facts >= 1
    /\ progressive_bonus_count = 7
    /\ unlocked_characters = {CharacterIndex("Anakin's Pod"),
                              CharacterIndex("Darth Vader")}
    /\ bonuses_byte = 49

=============================================================================
